---- MODULE Spec2Model ----
(***************************************************************************)
(* Kitchen simulation (ppois_2): tools, timer, oven, stove, ingredients    *)
(* and the Cook's recipes, modelled from kitchen.cpp / kitchen.hpp.        *)
(*                                                                         *)
(* A method that can throw is an operator returning [exc, s]: the kind of  *)
(* the exception raised ("none" when it returns normally) and the object's *)
(* state afterwards.  Each specification drives one family of objects      *)
(* (the objects that were constructed are listed in objs).                 *)
(***************************************************************************)
EXTENDS Integers, Sequences, FiniteSets, TLC

VARIABLES objs, tool, timer, oven, stove, ingr, dish, run, call, hist

vars == <<objs, tool, timer, oven, stove, ingr, dish, run, call, hist>>

(* ----------------------------- bounds ---------------------------------- *)
MaxDurability == 3      \* largest durability passed to KitchenTool(n,c,a,d)
MaxExtraCalls == 2      \* useTool calls tried beyond the initial durability
MaxSeconds    == 3      \* largest Timer constructor / start argument
MaxDelta      == 3      \* largest tick argument
MaxTicked     == 6      \* cap on the cumulative time ticked after a start
MaxMinutes    == 2      \* largest setTimerMinutes / warm-up argument
MaxOvenTicked == 120    \* cap on the seconds an oven is ticked in SpecTimer
MaxPreheats   == 1      \* successful preheat calls per oven in SpecTimer
MaxDeviations == 2      \* ways a dish's setting differs from the nominal one
MantissaBits == 10       \* significand bits of the modelled double
MaxBurners == 4
MaxGrams == 29
MaxStockCalls == 2
MaxRuns == 3
MaxScarce == 2
MaxBakeTicks == 10
MaxProfileSeconds == 3
MaxWarmups == 2         \* successful preheat calls per oven in SpecOven
MaxWarmTicked == 120    \* cap on the seconds an oven is ticked in SpecOven
MaxInput == 5           \* characters on standard input in SpecMenu

(* ------------------------- program constants --------------------------- *)
DefaultDurability == 100   \* every specialised tool is built with durability 100

Min(a, b) == IF a <= b THEN a ELSE b
Max(a, b) == IF a >= b THEN a ELSE b

NoCall == [op |-> "none", obj |-> "none", arg |-> 0, exc |-> "none", pre |-> <<>>]
NoHist == [kind |-> "none"]
NoDish == [recipe |-> "none", bound |-> {}]
NoRun  == [status |-> "idle"]

(* ============================ KitchenTool ============================== *)
KitchenTool(c, a, d) ==
    [kind |-> "KitchenTool", clean |-> c, available |-> a, busy |-> FALSE,
     durability |-> d]

KitchenTool_isAvailable_needsSpare(t) ==
    t.available /\ t.clean /\ t.durability > 1

KitchenTool_isAvailable(t) == t.available /\ t.clean /\ t.durability > 0

KitchenTool_useTool_keepsAvailable(t) ==
    IF ~t.available \/ ~t.clean \/ t.durability <= 0
    THEN [exc |-> "ToolNotAvailable", s |-> t]
    ELSE [exc |-> "none",
          s |-> [t EXCEPT !.busy = FALSE, !.durability = t.durability - 1]]

KitchenTool_useTool_ignoresDirt(t) ==
    IF ~t.available \/ t.durability <= 0
    THEN [exc |-> "ToolNotAvailable", s |-> t]
    ELSE IF t.durability - 1 <= 0
         THEN [exc |-> "none",
               s |-> [t EXCEPT !.busy = FALSE, !.durability = 0,
                               !.available = FALSE]]
         ELSE [exc |-> "none",
               s |-> [t EXCEPT !.busy = FALSE,
                               !.durability = t.durability - 1]]

KitchenTool_useTool_wearsDouble(t) ==
    IF ~t.available \/ ~t.clean \/ t.durability <= 0
    THEN [exc |-> "ToolNotAvailable", s |-> t]
    ELSE IF t.durability - 2 <= 0
         THEN [exc |-> "none",
               s |-> [t EXCEPT !.busy = FALSE, !.durability = 0,
                               !.available = FALSE]]
         ELSE [exc |-> "none",
               s |-> [t EXCEPT !.busy = FALSE,
                               !.durability = t.durability - 2]]

KitchenTool_useTool(t) ==
    IF ~t.available \/ ~t.clean \/ t.durability <= 0
    THEN [exc |-> "ToolNotAvailable", s |-> t]
    ELSE IF t.durability - 1 <= 0
         THEN [exc |-> "none",
               s |-> [t EXCEPT !.busy = FALSE, !.durability = 0,
                               !.available = FALSE]]
         ELSE [exc |-> "none",
               s |-> [t EXCEPT !.busy = FALSE,
                               !.durability = t.durability - 1]]

KitchenTool_cleanTool(t) == [t EXCEPT !.clean = TRUE]

KitchenTool_breakTool_belowZero(t) ==
    [t EXCEPT !.available = FALSE, !.durability = -1]

KitchenTool_breakTool(t) == [t EXCEPT !.available = FALSE, !.durability = 0]

(* ------------------------------- Knife --------------------------------- *)
Knife(s) ==
    [kind |-> "Knife", clean |-> TRUE, available |-> TRUE, busy |-> FALSE,
     durability |-> DefaultDurability, sharp |-> s]

Knife_sharpen_repairs(k) ==
    [k EXCEPT !.sharp = TRUE, !.available = TRUE,
              !.durability = DefaultDurability]

Knife_sharpen(k) == [k EXCEPT !.sharp = TRUE]
Knife_dull(k)    == [k EXCEPT !.sharp = FALSE]
Knife_canCut(k)  == KitchenTool_isAvailable(k) /\ k.sharp

(* ---------------------------- CuttingBoard ----------------------------- *)
CuttingBoard(w, we) ==
    [kind |-> "CuttingBoard", clean |-> TRUE, available |-> TRUE,
     busy |-> FALSE, durability |-> DefaultDurability,
     wooden |-> w, wet |-> we]

CuttingBoard_dry(b)      == [b EXCEPT !.wet = FALSE]
CuttingBoard_wetBoard(b) == [b EXCEPT !.wet = TRUE]
CuttingBoard_isSafeForBread(b) ==
    b.wooden /\ ~b.wet /\ KitchenTool_isAvailable(b)

(* -------------------------------- Pan ---------------------------------- *)
Pan(d, on) ==
    [kind |-> "Pan", clean |-> TRUE, available |-> TRUE, busy |-> FALSE,
     durability |-> DefaultDurability, diameter |-> d, onStove |-> on]

Pan_heatUp_placesFirst(p) ==
    IF ~KitchenTool_isAvailable(p)
    THEN [exc |-> "ToolNotAvailable", s |-> [p EXCEPT !.onStove = TRUE]]
    ELSE LET r == KitchenTool_useTool(p)
         IN  IF r.exc # "none" THEN r
             ELSE [exc |-> "none", s |-> [r.s EXCEPT !.onStove = TRUE]]

Pan_heatUp(p) ==
    IF ~KitchenTool_isAvailable(p)
    THEN [exc |-> "ToolNotAvailable", s |-> p]
    ELSE LET r == KitchenTool_useTool(p)
         IN  IF r.exc # "none" THEN r
             ELSE [exc |-> "none", s |-> [r.s EXCEPT !.onStove = TRUE]]

Pan_coolDown(p) == [p EXCEPT !.onStove = FALSE]
Pan_isHot(p)    == p.onStove

(* -------------------------------- Pot ---------------------------------- *)
\* volumes are in decilitres: 2.0 l is 20
Pot(v, on) ==
    [kind |-> "Pot", clean |-> TRUE, available |-> TRUE, busy |-> FALSE,
     durability |-> DefaultDurability, volume |-> v, onStove |-> on]

Pot_startBoil(p) ==
    IF ~KitchenTool_isAvailable(p)
    THEN [exc |-> "ToolNotAvailable", s |-> p]
    ELSE LET r == KitchenTool_useTool(p)
         IN  IF r.exc # "none" THEN r
             ELSE [exc |-> "none", s |-> [r.s EXCEPT !.onStove = TRUE]]

Pot_stopBoil(p) == [p EXCEPT !.onStove = FALSE]
Pot_canBoil_anyVolume(p, liters) == TRUE

Pot_canBoil(p, liters) == liters <= p.volume

(* ------------------------------- Mixer --------------------------------- *)
Mixer(plugged) ==
    [kind |-> "Mixer", clean |-> TRUE, available |-> TRUE, busy |-> FALSE,
     durability |-> DefaultDurability, pluggedIn |-> plugged]

Mixer_plugIn(m) == [m EXCEPT !.pluggedIn = TRUE]
Mixer_unplug(m) == [m EXCEPT !.pluggedIn = FALSE]

Mixer_mix_skipsUse(m) ==
    IF ~m.pluggedIn THEN [exc |-> "none", s |-> m]
    ELSE IF ~KitchenTool_isAvailable(m)
         THEN [exc |-> "ToolNotAvailable", s |-> m]
         ELSE [exc |-> "none", s |-> m]

Mixer_mix(m) ==
    IF ~m.pluggedIn THEN [exc |-> "none", s |-> m]
    ELSE IF ~KitchenTool_isAvailable(m)
         THEN [exc |-> "ToolNotAvailable", s |-> m]
         ELSE KitchenTool_useTool(m)

(* ---------------------------- PotatoMasher ----------------------------- *)
PotatoMasher ==
    [kind |-> "PotatoMasher", clean |-> TRUE, available |-> TRUE,
     busy |-> FALSE, durability |-> DefaultDurability]

PotatoMasher_mash(m) ==
    IF ~KitchenTool_isAvailable(m)
    THEN [exc |-> "ToolNotAvailable", s |-> m]
    ELSE KitchenTool_useTool(m)

(* =============================== Timer ================================= *)
Timer(s, r, e) == [seconds |-> s, running |-> r, elapsed |-> e]

Timer_start_keepsElapsed(tm, s) ==
    IF s <= 0 THEN [exc |-> "TimerNotSet", s |-> tm]
    ELSE [exc |-> "none", s |-> [tm EXCEPT !.seconds = s, !.running = TRUE]]

Timer_start(tm, s) ==
    IF s <= 0 THEN [exc |-> "TimerNotSet", s |-> tm]
    ELSE [exc |-> "none",
          s |-> [seconds |-> s, running |-> TRUE, elapsed |-> 0]]

Timer_tick_noClamp(tm, delta) ==
    IF delta <= 0 THEN tm
    ELSE IF ~tm.running THEN tm
    ELSE IF tm.elapsed + delta >= tm.seconds
         THEN [tm EXCEPT !.elapsed = tm.elapsed + delta, !.running = FALSE]
         ELSE [tm EXCEPT !.elapsed = tm.elapsed + delta]

Timer_tick_neverStops(tm, delta) ==
    IF delta <= 0 THEN tm
    ELSE IF ~tm.running THEN tm
    ELSE IF tm.elapsed + delta >= tm.seconds
         THEN [tm EXCEPT !.elapsed = tm.seconds]
         ELSE [tm EXCEPT !.elapsed = tm.elapsed + delta]

Timer_tick(tm, delta) ==
    IF delta <= 0 THEN tm
    ELSE IF ~tm.running THEN tm
    ELSE IF tm.elapsed + delta >= tm.seconds
         THEN [tm EXCEPT !.elapsed = tm.seconds, !.running = FALSE]
         ELSE [tm EXCEPT !.elapsed = tm.elapsed + delta]

Timer_isFinished(tm) == ~tm.running /\ tm.elapsed >= tm.seconds /\ tm.seconds > 0

(* ====================== exact temperatures (double) ==================== *)
\* A temperature is the exact rational num/den (den > 0, lowest terms).
RECURSIVE GCD(_, _)
GCD(a, b) == IF b = 0 THEN a ELSE GCD(b, a % b)

Abs(a) == IF a < 0 THEN -a ELSE a

Rat(n, d) ==
    LET g == GCD(Abs(n), Abs(d))
        k == IF g = 0 THEN 1 ELSE g
    IN  IF d < 0 THEN [num |-> (-n) \div k, den |-> (-d) \div k]
        ELSE [num |-> n \div k, den |-> d \div k]

Deg(n) == [num |-> n, den |-> 1]

RatAdd(x, y) == Rat(x.num * y.den + y.num * x.den, x.den * y.den)
RatSub(x, y) == Rat(x.num * y.den - y.num * x.den, x.den * y.den)
RatMulFrac(x, n, d) == Rat(x.num * n, x.den * d)      \* x * n / d
RatLeq(x, y) == x.num * y.den <= y.num * x.den
RatLt(x, y)  == x.num * y.den < y.num * x.den

\* A double is a binary floating-point number: Fl(x) is the number with a
\* MantissaBits-bit significand nearest to the rational x (ties to even).
\* The exponent range is not bounded.
Pow2(k) == 2^k

\* n/d >= 2^e, for n, d > 0
AtLeastPow2(n, d, e) ==
    IF e >= 0 THEN n \div d >= Pow2(e)
    ELSE (d + n - 1) \div n <= Pow2(-e)

\* the binary exponent of n/d: 2^e <= n/d < 2^(e+1)
Exponent(n, d) ==
    CHOOSE e \in (-30)..29 :
      AtLeastPow2(n, d, e) /\ ~AtLeastPow2(n, d, e + 1)

\* the one element of a singleton set; with a set constructor this
\* computes an intermediate value once
Only(S) == CHOOSE y \in S : TRUE

\* num/den rounded to the nearest integer, ties to even, times down/up
FlRound(num, den, down, up) ==
    Only({Rat((IF 2 * r > den \/ (2 * r = den /\ q % 2 = 1)
               THEN q + 1 ELSE q) * down, up) :
          q \in {num \div den}, r \in {num % den}})

\* n/d scaled by up/down so that its integer part has MantissaBits bits
FlScaled(n, d, down, up) ==
    Only({FlRound((n \div gd) * (up \div gu), (d \div gu) * (down \div gd),
                  down, up) :
          gu \in {GCD(d, up)}, gd \in {GCD(n, down)}})

FlPos(n, d) ==
    Only({FlScaled(n, d, IF shift < 0 THEN Pow2(-shift) ELSE 1,
                   IF shift > 0 THEN Pow2(shift) ELSE 1) :
          shift \in {(MantissaBits - 1) - Exponent(n, d)}})

Fl(x) ==
    Only({IF v.num = 0 THEN Deg(0)
          ELSE Only({IF v.num < 0 THEN [num |-> -y.num, den |-> y.den]
                     ELSE y : y \in {FlPos(Abs(v.num), v.den)}}) :
          v \in {x}})

FlAdd(x, y) == Only({Fl(RatAdd(a, b)) : a \in {x}, b \in {y}})

FlSub(x, y) == Only({Fl(RatSub(a, b)) : a \in {x}, b \in {y}})

FlMul(x, y) ==
    Only({Fl(Rat(a.num * b.num, a.den * b.den)) : a \in {x}, b \in {y}})

\* y # 0
FlDiv(x, y) ==
    Only({Fl(Rat(a.num * b.den, a.den * b.num)) : a \in {x}, b \in {y}})

(* ========================= TemperatureProfile ========================== *)
TemperatureProfile(s, t, d, g) ==
    [startTemp |-> s, targetTemp |-> t, duration |-> d, gradual |-> g]

TemperatureProfile_currentTemp_intRatio(p, elapsed) ==
    IF ~p.gradual \/ elapsed >= p.duration \/ p.duration <= 0
    THEN p.targetTemp
    ELSE FlAdd(p.startTemp,
               FlMul(FlSub(p.targetTemp, p.startTemp),
                     Deg(elapsed \div p.duration)))

TemperatureProfile_currentTemp_noCap(p, elapsed) ==
    IF ~p.gradual \/ p.duration <= 0
    THEN p.targetTemp
    ELSE FlAdd(p.startTemp,
               FlMul(FlSub(p.targetTemp, p.startTemp),
                     FlDiv(Deg(elapsed), Deg(p.duration))))

TemperatureProfile_currentTemp(p, elapsed) ==
    IF ~p.gradual \/ elapsed >= p.duration \/ p.duration <= 0
    THEN p.targetTemp
    ELSE FlAdd(p.startTemp,
               FlMul(FlSub(p.targetTemp, p.startTemp),
                     FlDiv(Deg(elapsed), Deg(p.duration))))

TemperatureProfile_isReached(p, current) == RatLeq(p.targetTemp, current)

TemperatureProfile_reset(p, s, t, d) ==
    [p EXCEPT !.startTemp = s, !.targetTemp = t, !.duration = d]

(* ================================ Oven ================================= *)
Oven(t, o, d) ==
    [temperature |-> t, on |-> o, doorClosed |-> d,
     bakingTimer |-> Timer(0, FALSE, 0),
     profile |-> TemperatureProfile(Deg(20), Deg(180), 600, TRUE),
     elapsedSeconds |-> 0]

Oven_preheat_armsFirst(ov, t, warmupMinutes) ==
    LET armed == [ov EXCEPT
                    !.profile = TemperatureProfile_reset(
                                    ov.profile, ov.temperature, Deg(t),
                                    warmupMinutes * 60),
                    !.elapsedSeconds = 0]
    IN  IF t <= 0 \/ t > 300 \/ ~ov.doorClosed \/ warmupMinutes <= 0
        THEN [exc |-> "InvalidTemperature", s |-> armed]
        ELSE [exc |-> "none", s |-> [armed EXCEPT !.on = TRUE]]

Oven_preheat_fixedStart(ov, t, warmupMinutes) ==
    IF t <= 0 \/ t > 300 \/ ~ov.doorClosed \/ warmupMinutes <= 0
    THEN [exc |-> "InvalidTemperature", s |-> ov]
    ELSE [exc |-> "none",
          s |-> [ov EXCEPT
                   !.profile = TemperatureProfile_reset(
                                   ov.profile, Deg(0), Deg(t),
                                   warmupMinutes * 60),
                   !.elapsedSeconds = 0,
                   !.on = TRUE]]

\* t is a whole number of degrees
Oven_preheat(ov, t, warmupMinutes) ==
    IF t <= 0 \/ t > 300
    THEN [exc |-> "InvalidTemperature", s |-> ov]
    ELSE IF ~ov.doorClosed
    THEN [exc |-> "InvalidTemperature", s |-> ov]
    ELSE IF warmupMinutes <= 0
    THEN [exc |-> "InvalidTemperature", s |-> ov]
    ELSE [exc |-> "none",
          s |-> [ov EXCEPT
                   !.profile = TemperatureProfile_reset(
                                   ov.profile, ov.temperature, Deg(t),
                                   warmupMinutes * 60),
                   !.elapsedSeconds = 0,
                   !.on = TRUE]]

Oven_turnOff(ov) == [ov EXCEPT !.on = FALSE, !.temperature = Deg(0)]

Oven_closeDoor(ov) == [ov EXCEPT !.doorClosed = TRUE]

Oven_openDoor(ov) == [ov EXCEPT !.doorClosed = FALSE]

Oven_setTimerMinutes_stopsFirst(ov, minutes) ==
    IF minutes <= 0
    THEN [exc |-> "TimerNotSet",
          s |-> [ov EXCEPT !.bakingTimer.running = FALSE]]
    ELSE LET r == Timer_start(ov.bakingTimer, minutes * 60)
         IN  [exc |-> r.exc, s |-> [ov EXCEPT !.bakingTimer = r.s]]

Oven_setTimerMinutes_keepsRunning(ov, minutes) ==
    IF minutes <= 0
    THEN [exc |-> "TimerNotSet", s |-> ov]
    ELSE IF ov.bakingTimer.running \/ Timer_isFinished(ov.bakingTimer)
    THEN [exc |-> "none", s |-> ov]
    ELSE LET r == Timer_start(ov.bakingTimer, minutes * 60)
         IN  [exc |-> r.exc, s |-> [ov EXCEPT !.bakingTimer = r.s]]

Oven_setTimerMinutes(ov, minutes) ==
    IF minutes <= 0
    THEN [exc |-> "TimerNotSet", s |-> ov]
    ELSE LET r == Timer_start(ov.bakingTimer, minutes * 60)
         IN  [exc |-> r.exc, s |-> [ov EXCEPT !.bakingTimer = r.s]]

Oven_tick_offWhenIdle(ov, secondsDelta) ==
    IF secondsDelta <= 0 THEN ov
    ELSE LET heated ==
               IF ov.on
               THEN [ov EXCEPT
                       !.elapsedSeconds = ov.elapsedSeconds + secondsDelta,
                       !.temperature = TemperatureProfile_currentTemp(
                                           ov.profile,
                                           ov.elapsedSeconds + secondsDelta)]
               ELSE ov
             timed == [heated EXCEPT
                         !.bakingTimer = Timer_tick(heated.bakingTimer,
                                                    secondsDelta)]
         IN  IF ~timed.bakingTimer.running /\ timed.on
             THEN Oven_turnOff(timed)
             ELSE timed

Oven_tick(ov, secondsDelta) ==
    IF secondsDelta <= 0 THEN ov
    ELSE LET heated ==
               IF ov.on
               THEN [ov EXCEPT
                       !.elapsedSeconds = ov.elapsedSeconds + secondsDelta,
                       !.temperature = TemperatureProfile_currentTemp(
                                           ov.profile,
                                           ov.elapsedSeconds + secondsDelta)]
               ELSE ov
             timed == [heated EXCEPT
                         !.bakingTimer = Timer_tick(heated.bakingTimer,
                                                    secondsDelta)]
         IN  IF Timer_isFinished(timed.bakingTimer) /\ timed.on
             THEN Oven_turnOff(timed)
             ELSE timed

Oven_isOn(ov) == ov.on
Oven_getTemperature(ov) == ov.temperature
Oven_isDoorClosed(ov) == ov.doorClosed

(* ================================ Stove ================================ *)
Stove(b, act, o) == [burners |-> b, activeBurners |-> act, on |-> o]

Stove_turnOnBurner_noCap(st) ==
    [st EXCEPT !.activeBurners = st.activeBurners + 1, !.on = TRUE]

Stove_turnOnBurner(st) ==
    IF st.activeBurners < st.burners
    THEN [st EXCEPT !.activeBurners = st.activeBurners + 1, !.on = TRUE]
    ELSE st

Stove_turnOffBurner(st) ==
    IF st.activeBurners > 0
    THEN [st EXCEPT !.activeBurners = st.activeBurners - 1,
                    !.on = IF st.activeBurners - 1 = 0 THEN FALSE ELSE st.on]
    ELSE st

Stove_freeBurners(st) == st.burners - st.activeBurners

(* ================= the catalog as the constructors leave it ============ *)
ToolNames == {"tool", "knife", "board", "pan", "pot", "mixer", "masher"}

DefaultTools ==
    [o \in ToolNames |->
        CASE o = "tool"   -> KitchenTool(TRUE, TRUE, DefaultDurability)
          [] o = "knife"  -> Knife(TRUE)
          [] o = "board"  -> CuttingBoard(TRUE, FALSE)
          [] o = "pan"    -> Pan(24, FALSE)
          [] o = "pot"    -> Pot(20, FALSE)
          [] o = "mixer"  -> Mixer(FALSE)
          [] o = "masher" -> PotatoMasher]

DefaultTimer == Timer(0, FALSE, 0)
DefaultOven  == Oven(Deg(0), FALSE, TRUE)
DefaultStove == Stove(4, 0, FALSE)
NoIngredients == [h \in {} |-> 0]

(* ======================================================================= *)
(* SpecTool: one tool is constructed and its methods are called in any     *)
(* order.  call records the last method call (with the tool's state before *)
(* it); hist counts the useTool calls made while nothing else was called.  *)
(* ======================================================================= *)
ToolCtor(o) ==
    CASE o = "tool"   -> {KitchenTool(c, a, d) :
                            c \in BOOLEAN, a \in BOOLEAN,
                            d \in (-1)..MaxDurability}
      [] o = "knife"  -> {Knife(s) : s \in BOOLEAN}
      [] o = "board"  -> {CuttingBoard(w, we) : w \in BOOLEAN, we \in BOOLEAN}
      [] o = "pan"    -> {Pan(24, on) : on \in BOOLEAN}
      [] o = "pot"    -> {Pot(v, on) : v \in {10, 20}, on \in BOOLEAN}
      [] o = "mixer"  -> {Mixer(pl) : pl \in BOOLEAN}
      [] o = "masher" -> {PotatoMasher}

InitTool ==
    \E o \in ToolNames :
      \E t0 \in ToolCtor(o) :
        /\ objs = {o}
        /\ tool = [DefaultTools EXCEPT ![o] = t0]
        /\ hist = [kind |-> "tool", c0 |-> t0.clean, a0 |-> t0.available,
                   d0 |-> t0.durability, nUse |-> 0, nOk |-> 0,
                   onlyUse |-> TRUE]
        /\ timer = DefaultTimer
        /\ oven = DefaultOven
        /\ stove = DefaultStove
        /\ ingr = NoIngredients
        /\ dish = NoDish
        /\ run = NoRun
        /\ call = NoCall

ToolCall(op, o, r) ==
    /\ tool' = [tool EXCEPT ![o] = r.s]
    /\ call' = [op |-> op, obj |-> o, arg |-> 0, exc |-> r.exc,
                pre |-> tool[o]]
    /\ UNCHANGED <<objs, timer, oven, stove, ingr, dish, run>>

Returns(s) == [exc |-> "none", s |-> s]

OtherCall == hist' = [hist EXCEPT !.onlyUse = FALSE, !.nUse = 0, !.nOk = 0]

UseTool ==
    \E o \in objs :
      /\ hist.onlyUse => hist.nUse < Max(hist.d0, 0) + MaxExtraCalls
      /\ LET r == KitchenTool_useTool(tool[o])
         IN  /\ ToolCall("useTool", o, r)
             /\ hist' = IF hist.onlyUse
                        THEN [hist EXCEPT
                                !.nUse = @ + 1,
                                !.nOk = @ + (IF r.exc = "none" THEN 1 ELSE 0)]
                        ELSE hist

CleanTool ==
    \E o \in objs :
      ToolCall("cleanTool", o, Returns(KitchenTool_cleanTool(tool[o])))
      /\ OtherCall

BreakTool ==
    \E o \in objs :
      ToolCall("breakTool", o, Returns(KitchenTool_breakTool(tool[o])))
      /\ OtherCall

Sharpen ==
    /\ "knife" \in objs
    /\ ToolCall("sharpen", "knife", Returns(Knife_sharpen(tool["knife"])))
    /\ OtherCall

Dull ==
    /\ "knife" \in objs
    /\ ToolCall("dull", "knife", Returns(Knife_dull(tool["knife"])))
    /\ OtherCall

Dry ==
    /\ "board" \in objs
    /\ ToolCall("dry", "board", Returns(CuttingBoard_dry(tool["board"])))
    /\ OtherCall

WetBoard ==
    /\ "board" \in objs
    /\ ToolCall("wetBoard", "board",
                Returns(CuttingBoard_wetBoard(tool["board"])))
    /\ OtherCall

HeatUp ==
    /\ "pan" \in objs
    /\ ToolCall("heatUp", "pan", Pan_heatUp(tool["pan"]))
    /\ OtherCall

CoolDown ==
    /\ "pan" \in objs
    /\ ToolCall("coolDown", "pan", Returns(Pan_coolDown(tool["pan"])))
    /\ OtherCall

StartBoil ==
    /\ "pot" \in objs
    /\ ToolCall("startBoil", "pot", Pot_startBoil(tool["pot"]))
    /\ OtherCall

StopBoil ==
    /\ "pot" \in objs
    /\ ToolCall("stopBoil", "pot", Returns(Pot_stopBoil(tool["pot"])))
    /\ OtherCall

PlugIn ==
    /\ "mixer" \in objs
    /\ ToolCall("plugIn", "mixer", Returns(Mixer_plugIn(tool["mixer"])))
    /\ OtherCall

Unplug ==
    /\ "mixer" \in objs
    /\ ToolCall("unplug", "mixer", Returns(Mixer_unplug(tool["mixer"])))
    /\ OtherCall

Mix ==
    /\ "mixer" \in objs
    /\ ToolCall("mix", "mixer", Mixer_mix(tool["mixer"]))
    /\ OtherCall

Mash ==
    /\ "masher" \in objs
    /\ ToolCall("mash", "masher", PotatoMasher_mash(tool["masher"]))
    /\ OtherCall

NextTool ==
    \/ UseTool \/ CleanTool \/ BreakTool
    \/ Sharpen \/ Dull
    \/ Dry \/ WetBoard
    \/ HeatUp \/ CoolDown
    \/ StartBoil \/ StopBoil
    \/ PlugIn \/ Unplug \/ Mix
    \/ Mash

SpecTool == InitTool /\ [][NextTool]_vars

(* ------------------------- claims on SpecTool -------------------------- *)
TheTool == tool[call.obj]

\* C4: useTool() raises ToolNotAvailable and changes nothing unless the tool
\* is available, clean and has durability > 0; when it succeeds, durability
\* drops by exactly 1, available becomes false exactly when the new
\* durability is 0, and clean is unchanged.
C4_UseToolContract ==
    call.op = "useTool" =>
      IF call.pre.available /\ call.pre.clean /\ call.pre.durability > 0
      THEN /\ call.exc = "none"
           /\ TheTool.durability = call.pre.durability - 1
           /\ TheTool.available = (TheTool.durability # 0)
           /\ TheTool.clean = call.pre.clean
      ELSE /\ call.exc = "ToolNotAvailable"
           /\ TheTool = call.pre

C4_Witness ==
    /\ call.op = "useTool"
    /\ call.exc = "none"
    /\ call.pre.durability = 1
    /\ TheTool.durability = 0
    /\ ~TheTool.available

\* C26: in every state of a tool constructed with durability >= 0, after
\* any sequence of useTool, cleanTool, breakTool and device operations,
\* succeeding or failing, durability >= 0, and isAvailable() is true exactly
\* when available, clean and durability > 0 all hold.
C26_DurabilityNeverNegative ==
    (hist.kind = "tool" /\ hist.d0 >= 0) =>
      \A o \in objs :
        /\ tool[o].durability >= 0
        /\ tool[o].durability <= hist.d0
        /\ KitchenTool_isAvailable(tool[o])
             = (tool[o].available /\ tool[o].clean /\ tool[o].durability > 0)

C26_Witness ==
    /\ hist.kind = "tool" /\ hist.d0 = 2
    /\ call.op = "useTool" /\ call.exc = "ToolNotAvailable"
    /\ call.pre.durability = 0
    /\ TheTool.durability = 0
    /\ TheTool.clean
    /\ ~KitchenTool_isAvailable(TheTool)

\* C27: each capability predicate is the tool's base isAvailable() conjoined
\* with its own flags: canCut = isAvailable and sharp, isSafeForBread =
\* isAvailable and wooden and not wet, isHot = isAvailable and on the stove,
\* canBoil(v) = isAvailable and v <= volume.
C27_CapabilitiesNeedAvailable ==
    hist.kind = "tool" =>
      /\ "knife" \in objs =>
           Knife_canCut(tool["knife"])
             = (KitchenTool_isAvailable(tool["knife"]) /\ tool["knife"].sharp)
      /\ "board" \in objs =>
           CuttingBoard_isSafeForBread(tool["board"])
             = (KitchenTool_isAvailable(tool["board"])
                  /\ tool["board"].wooden /\ ~tool["board"].wet)
      /\ "pan" \in objs =>
           Pan_isHot(tool["pan"])
             = (KitchenTool_isAvailable(tool["pan"]) /\ tool["pan"].onStove)
      /\ "pot" \in objs =>
           \A v \in {10, 15, 20} :
             Pot_canBoil(tool["pot"], v)
               = (KitchenTool_isAvailable(tool["pot"])
                    /\ v <= tool["pot"].volume)

\* C5: a clean, available tool constructed with durability d >= 1 accepts
\* exactly its first d useTool() calls; durability is 0 exactly from the d-th
\* call on, and the (d+1)-th and every later call raises ToolNotAvailable.
C5_ExactlyDUses ==
    (hist.kind = "tool" /\ hist.onlyUse /\ hist.c0 /\ hist.a0 /\ hist.d0 >= 1)
    => \A o \in objs :
         /\ hist.nOk = Min(hist.nUse, hist.d0)
         /\ tool[o].durability = hist.d0 - hist.nOk
         /\ (tool[o].durability = 0) = (hist.nUse >= hist.d0)
         /\ call.op = "useTool" =>
              ((call.exc = "none") = (hist.nUse <= hist.d0))
         /\ call.op = "useTool" =>
              ((call.exc = "ToolNotAvailable") = (hist.nUse > hist.d0))

C5_Witness ==
    /\ hist.kind = "tool" /\ hist.onlyUse /\ hist.c0 /\ hist.a0
    /\ hist.d0 >= 2
    /\ hist.nUse = hist.d0 + 2
    /\ hist.nOk = hist.d0
    /\ call.exc = "ToolNotAvailable"

DeviceOps == {"heatUp", "startBoil", "mash", "mix"}

\* C6: when heatUp, startBoil, mash or mix raises ToolNotAvailable, the whole
\* state of the tool is what it was before the call.
C6_FailedDeviceOpHasNoEffect ==
    (call.op \in DeviceOps /\ call.exc = "ToolNotAvailable")
    => TheTool = call.pre

C6_Witness ==
    /\ call.op = "heatUp"
    /\ call.exc = "ToolNotAvailable"
    /\ ~call.pre.onStove
    /\ ~TheTool.onStove

OvenTemps  == {0, 180, 301}
OvenDeltas == {-1, 0, 30, 60}

InitTimer ==
    /\ tool = DefaultTools
    /\ stove = DefaultStove
    /\ ingr = NoIngredients
    /\ dish = NoDish
    /\ run = NoRun
    /\ call = NoCall
    /\ \/ /\ objs = {"timer"}
          /\ \E s \in (-1)..MaxSeconds, r \in BOOLEAN, e \in (-1)..MaxSeconds :
               timer = Timer(s, r, e)
          /\ oven = DefaultOven
          /\ hist = [kind |-> "timer", started |-> FALSE, target |-> 0,
                     ticked |-> 0]
       \/ /\ objs = {"oven"}
          /\ timer = DefaultTimer
          /\ \E t \in {0, 180}, o \in BOOLEAN, d \in BOOLEAN :
               oven = Oven(Deg(t), o, d)
          /\ hist = [kind |-> "oven", preheats |-> 0, ticked |-> 0,
                     phase |-> IF oven = DefaultOven THEN "fresh"
                               ELSE "other",
                     since |-> 0, t |-> 0, w |-> 0, m |-> 0]

TimerStart ==
    /\ "timer" \in objs
    /\ \E s \in (-1)..MaxSeconds :
         LET r == Timer_start(timer, s)
         IN  /\ timer' = r.s
             /\ call' = [op |-> "start", obj |-> "timer", arg |-> s,
                         exc |-> r.exc, pre |-> timer]
             /\ hist' = IF r.exc = "none"
                        THEN [hist EXCEPT !.started = TRUE, !.target = s,
                                          !.ticked = 0]
                        ELSE hist
    /\ UNCHANGED <<objs, tool, oven, stove, ingr, dish, run>>

TimerTick ==
    /\ "timer" \in objs
    /\ \E delta \in (-1)..MaxDelta :
         /\ hist.ticked + Max(delta, 0) <= MaxTicked
         /\ timer' = Timer_tick(timer, delta)
         /\ call' = [op |-> "tick", obj |-> "timer", arg |-> delta,
                     exc |-> "none", pre |-> timer]
         /\ hist' = [hist EXCEPT !.ticked = @ + Max(delta, 0)]
    /\ UNCHANGED <<objs, tool, oven, stove, ingr, dish, run>>

OvenCall(op, arg, r) ==
    /\ "oven" \in objs
    /\ oven' = r.s
    /\ call' = [op |-> op, obj |-> "oven", arg |-> arg, exc |-> r.exc,
                pre |-> oven]
    /\ UNCHANGED <<objs, tool, timer, stove, ingr, dish, run>>

OvenPreheat ==
    \E t \in OvenTemps, w \in 0..1 :
      LET r == Oven_preheat(oven, t, w)
      IN  /\ "oven" \in objs
          /\ r.exc = "none" => hist.preheats < MaxPreheats
          /\ OvenCall("preheat", <<t, w>>, r)
          /\ hist' = IF r.exc = "none"
                     THEN IF hist.phase = "fresh"
                          THEN [hist EXCEPT !.preheats = @ + 1,
                                            !.phase = "heating",
                                            !.since = 0, !.t = t, !.w = w]
                          ELSE [hist EXCEPT !.preheats = @ + 1,
                                            !.phase = "other"]
                     ELSE hist

OvenTurnOff ==
    /\ OvenCall("turnOff", 0, Returns(Oven_turnOff(oven)))
    /\ hist' = [hist EXCEPT !.phase = "other"]

OvenCloseDoor ==
    /\ OvenCall("closeDoor", 0, Returns(Oven_closeDoor(oven)))
    /\ UNCHANGED hist

OvenOpenDoor ==
    /\ OvenCall("openDoor", 0, Returns(Oven_openDoor(oven)))
    /\ UNCHANGED hist

OvenSetTimerMinutes ==
    \E m \in (-1)..MaxMinutes :
      /\ OvenCall("setTimerMinutes", m, Oven_setTimerMinutes(oven, m))
      /\ hist' = IF m <= 0 THEN hist
                 ELSE IF hist.phase = "heating"
                 THEN [hist EXCEPT !.phase = "timed", !.since = 0, !.m = m]
                 ELSE [hist EXCEPT !.phase = "other"]

OvenTick ==
    \E delta \in OvenDeltas :
      /\ "oven" \in objs
      /\ hist.ticked + Max(delta, 0) <= MaxOvenTicked
      /\ OvenCall("tick", delta, Returns(Oven_tick(oven, delta)))
      /\ hist' = [hist EXCEPT !.ticked = @ + Max(delta, 0),
                              !.since = @ + Max(delta, 0)]

NextTimer ==
    \/ TimerStart \/ TimerTick
    \/ OvenPreheat \/ OvenTurnOff \/ OvenCloseDoor \/ OvenOpenDoor
    \/ OvenSetTimerMinutes \/ OvenTick

SpecTimer == InitTimer /\ [][NextTimer]_vars

(* ------------------------- claims on SpecTimer ------------------------- *)
\* C8: after start(s) with s > 0, isFinished() is false while the sum of the
\* positive deltas ticked so far is < s and true once it is >= s; from then
\* on elapsed stays equal to s and running stays false under further ticks.
C8_FinishedExactlyWhenTickedEnough ==
    (hist.kind = "timer" /\ hist.started) =>
      /\ timer.seconds = hist.target
      /\ Timer_isFinished(timer) = (hist.ticked >= hist.target)
      /\ hist.ticked >= hist.target
           => (timer.elapsed = hist.target /\ ~timer.running)
      /\ hist.ticked < hist.target
           => (timer.elapsed = hist.ticked /\ timer.running)

C8_Witness ==
    /\ hist.kind = "timer" /\ hist.started
    /\ call.op = "tick" /\ call.arg > 0
    /\ ~call.pre.running /\ call.pre.elapsed = hist.target
    /\ hist.ticked > hist.target + 1
    /\ Timer_isFinished(timer)

\* C9: start(s) with s <= 0 raises TimerNotSet and leaves the timer as it
\* was, and setTimerMinutes(m) with m <= 0 raises TimerNotSet and leaves the
\* oven as it was; start(s) with s > 0, from any prior state, sets
\* target = s, elapsed = 0 and running = true, so isFinished() is false.
C9_StartContract ==
    /\ call.op = "start" =>
         IF call.arg <= 0
         THEN call.exc = "TimerNotSet" /\ timer = call.pre
         ELSE /\ call.exc = "none"
              /\ timer.seconds = call.arg
              /\ timer.elapsed = 0
              /\ timer.running
              /\ ~Timer_isFinished(timer)
    /\ (call.op = "setTimerMinutes" /\ call.arg <= 0) =>
         (call.exc = "TimerNotSet" /\ oven = call.pre)

C9_Witness ==
    /\ call.op = "start" /\ call.arg > 0 /\ call.exc = "none"
    /\ call.pre.elapsed > 0
    /\ Timer_isFinished(call.pre)
    /\ timer.running /\ timer.elapsed = 0

\* C10: tick(delta) changes nothing when delta <= 0 or the timer is not
\* running; otherwise elapsed becomes min(elapsed + delta, target) and
\* running becomes false exactly when elapsed + delta >= target.
C10_TickContract ==
    (call.op = "tick" /\ call.obj = "timer") =>
      IF call.arg <= 0 \/ ~call.pre.running
      THEN timer = call.pre
      ELSE /\ timer.elapsed = Min(call.pre.elapsed + call.arg,
                                  call.pre.seconds)
           /\ timer.running = ~(call.pre.elapsed + call.arg
                                  >= call.pre.seconds)
           /\ timer.seconds = call.pre.seconds

C10_Witness ==
    /\ call.op = "tick" /\ call.obj = "timer"
    /\ call.arg > 0 /\ call.pre.running
    /\ call.pre.elapsed + call.arg > call.pre.seconds
    /\ call.pre.seconds > 0
    /\ timer.elapsed = call.pre.seconds /\ ~timer.running

(* ======================================================================= *)
(* SpecStove: a Stove is constructed with any burner counts and its        *)
(* burners are switched on and off in any order.  hist keeps whether the   *)
(* constructor arguments satisfied 0 <= active <= total.                   *)
(* ======================================================================= *)
InitStove ==
    /\ objs = {"stove"}
    /\ tool = DefaultTools
    /\ timer = DefaultTimer
    /\ oven = DefaultOven
    /\ ingr = NoIngredients
    /\ dish = NoDish
    /\ run = NoRun
    /\ call = NoCall
    /\ \E b \in (-1)..MaxBurners, act \in (-1)..(MaxBurners + 1),
          o \in BOOLEAN :
         /\ stove = Stove(b, act, o)
         /\ hist = [kind |-> "stove", inRange |-> (0 <= act /\ act <= b),
                    burners |-> b]

StoveCall(op, s) ==
    /\ "stove" \in objs
    /\ stove' = s
    /\ call' = [op |-> op, obj |-> "stove", arg |-> 0, exc |-> "none",
                pre |-> stove]
    /\ UNCHANGED <<objs, tool, timer, oven, ingr, dish, run, hist>>

TurnOnBurner == StoveCall("turnOnBurner", Stove_turnOnBurner(stove))

TurnOffBurner == StoveCall("turnOffBurner", Stove_turnOffBurner(stove))

NextStove == TurnOnBurner \/ TurnOffBurner

SpecStove == InitStove /\ [][NextStove]_vars

(* ------------------------- claims on SpecStove ------------------------- *)
\* C15: for a stove constructed with 0 <= active <= total, after any calls
\* 0 <= activeBurners <= burners and freeBurners() = burners -
\* activeBurners; turnOnBurner adds exactly 1 when active < total and
\* otherwise changes nothing, turnOffBurner subtracts exactly 1 when
\* active > 0 and otherwise changes nothing; neither raises.
C15_BurnerAccounting ==
    (hist.kind = "stove" /\ hist.inRange) =>
      /\ 0 <= stove.activeBurners /\ stove.activeBurners <= stove.burners
      /\ stove.burners = hist.burners
      /\ Stove_freeBurners(stove) = stove.burners - stove.activeBurners
      /\ Stove_freeBurners(stove) >= 0
      /\ call.op # "none" => call.exc = "none"
      /\ call.op = "turnOnBurner" =>
           IF call.pre.activeBurners < call.pre.burners
           THEN stove.activeBurners = call.pre.activeBurners + 1
           ELSE stove = call.pre
      /\ call.op = "turnOffBurner" =>
           IF call.pre.activeBurners > 0
           THEN stove.activeBurners = call.pre.activeBurners - 1
           ELSE stove = call.pre

C15_Witness ==
    /\ hist.kind = "stove" /\ hist.inRange
    /\ call.op = "turnOnBurner"
    /\ call.pre.burners = MaxBurners
    /\ call.pre.activeBurners = MaxBurners
    /\ stove = call.pre
    /\ Stove_freeBurners(stove) = 0

(* ========================= Quantity / Ingredient ======================= *)
\* value is the rational the double stands for; unit is gramsPerUnit
\* of the bound Unit, NoUnit for a null Unit pointer.
NoUnit == 0

Quantity(v, u) == [value |-> v, unit |-> u]

Quantity_toGrams_zeroWithoutUnit(q) ==
    IF q.unit = NoUnit
    THEN [exc |-> "none", v |-> Deg(0)]
    ELSE [exc |-> "none", v |-> FlMul(q.value, Deg(q.unit))]

Quantity_toGrams(q) ==
    IF q.unit = NoUnit
    THEN [exc |-> "StorageException", v |-> Deg(0)]
    ELSE [exc |-> "none", v |-> FlMul(q.value, Deg(q.unit))]

Quantity_scale(q, factor) == [q EXCEPT !.value = FlMul(q.value, factor)]

Quantity_isZero(q) == RatLeq(q.value, Deg(0))

Ingredient_addAmount(q, v) ==
    Only({IF g.exc # "none" THEN [exc |-> g.exc, s |-> q]
          ELSE IF RatLt(Deg(0), g.v)
          THEN [exc |-> "none",
                s |-> Quantity_scale(q, FlDiv(FlAdd(g.v, Deg(v)), g.v))]
          ELSE [exc |-> "none", s |-> q] :
          g \in {Quantity_toGrams(q)}})

Ingredient_useAmount_drains(q, vGrams) ==
    Only({IF g.exc # "none" THEN [exc |-> g.exc, s |-> q]
          ELSE IF RatLt(g.v, Deg(vGrams))
          THEN [exc |-> "NotEnoughIngredient",
                s |-> Quantity_scale(q, Deg(0))]
          ELSE IF RatLt(Deg(0), g.v)
          THEN [exc |-> "none",
                s |-> Quantity_scale(q, FlDiv(FlSub(g.v, Deg(vGrams)), g.v))]
          ELSE [exc |-> "none", s |-> q] :
          g \in {Quantity_toGrams(q)}})

Ingredient_useAmount_lenient(q, vGrams) ==
    Only({IF g.exc # "none" THEN [exc |-> g.exc, s |-> q]
          ELSE IF RatLt(g.v, Deg(vGrams))
          THEN [exc |-> "none", s |-> Quantity_scale(q, Deg(0))]
          ELSE IF RatLt(Deg(0), g.v)
          THEN [exc |-> "none",
                s |-> Quantity_scale(q, FlDiv(FlSub(g.v, Deg(vGrams)), g.v))]
          ELSE [exc |-> "none", s |-> q] :
          g \in {Quantity_toGrams(q)}})

Ingredient_useAmount(q, vGrams) ==
    Only({IF g.exc # "none" THEN [exc |-> g.exc, s |-> q]
          ELSE IF RatLt(g.v, Deg(vGrams))
          THEN [exc |-> "NotEnoughIngredient", s |-> q]
          ELSE IF RatLt(Deg(0), g.v)
          THEN [exc |-> "none",
                s |-> Quantity_scale(q, FlDiv(FlSub(g.v, Deg(vGrams)), g.v))]
          ELSE [exc |-> "none", s |-> q] :
          g \in {Quantity_toGrams(q)}})

\* the mass toGrams() reports for a quantity with a unit
Grams(q) == FlMul(q.value, Deg(q.unit))

(* ======================================================================= *)
(* SpecStock: one Ingredient is constructed with a value >= 0 and its      *)
(* useAmount and addAmount are called in any order with any arguments.     *)
(* hist keeps the mass at construction, the number of calls and the first  *)
(* call.                                                                   *)
(* ======================================================================= *)
PieceGrams == 50
StockArgs == (-2)..MaxGrams

InitStock ==
    /\ objs = {"stock"}
    /\ tool = DefaultTools
    /\ timer = DefaultTimer
    /\ oven = DefaultOven
    /\ stove = DefaultStove
    /\ dish = NoDish
    /\ run = NoRun
    /\ call = NoCall
    /\ \E g \in 0..MaxGrams, u \in {NoUnit, 1, PieceGrams} :
         /\ u = 1 \/ g <= 2
         /\ ingr = [h \in {"stock"} |-> Quantity(Deg(g), u)]
         /\ hist = [kind |-> "stock", g0 |-> g * u, calls |-> 0,
                    firstOp |-> "none", first |-> 0]

StockCall(op, m, r) ==
    /\ "stock" \in objs
    /\ hist.calls < MaxStockCalls
    /\ ingr' = [ingr EXCEPT !["stock"] = r.s]
    /\ call' = [op |-> op, obj |-> "stock", arg |-> m, exc |-> r.exc,
                pre |-> ingr["stock"]]
    /\ hist' = IF hist.calls = 0
               THEN [hist EXCEPT !.calls = 1, !.firstOp = op, !.first = m]
               ELSE [hist EXCEPT !.calls = @ + 1]
    /\ UNCHANGED <<objs, tool, timer, oven, stove, dish, run>>

UseAmount ==
    \E m \in StockArgs :
      StockCall("useAmount", m, Ingredient_useAmount(ingr["stock"], m))

AddAmount ==
    \E m \in StockArgs :
      StockCall("addAmount", m, Ingredient_addAmount(ingr["stock"], m))

NextStock == UseAmount \/ AddAmount

SpecStock == InitStock /\ [][NextStock]_vars

(* ------------------------- claims on SpecStock ------------------------- *)
\* C33: toGrams() raises StorageException when the quantity has no unit
\* bound, and only then; useAmount and addAmount on such a quantity raise
\* the same error and leave the quantity as it was.
C33_NoUnitRaisesStorage ==
    hist.kind = "stock" =>
      /\ (Quantity_toGrams(ingr["stock"]).exc = "StorageException")
           = (ingr["stock"].unit = NoUnit)
      /\ (call.op \in {"useAmount", "addAmount"}
          /\ call.pre.unit = NoUnit) =>
           /\ call.exc = "StorageException"
           /\ ingr["stock"] = call.pre

C33_Witness ==
    /\ hist.kind = "stock" /\ hist.calls = 2
    /\ call.op = "addAmount" /\ call.arg = 1
    /\ hist.firstOp = "useAmount" /\ hist.first = 1
    /\ call.pre = Quantity(Deg(2), NoUnit)
    /\ call.exc = "StorageException"
    /\ ingr["stock"] = Quantity(Deg(2), NoUnit)

\* C16: useAmount(m) raises NotEnoughIngredient and leaves the mass
\* unchanged when m exceeds the current mass in grams; otherwise the mass
\* afterwards equals the previous mass minus m.
C16_UseAmountContract ==
    (call.op = "useAmount" /\ call.obj = "stock"
       /\ call.pre.unit # NoUnit) =>
      IF RatLt(Grams(call.pre), Deg(call.arg))
      THEN call.exc = "NotEnoughIngredient" /\ ingr["stock"] = call.pre
      ELSE /\ call.exc = "none"
           /\ Grams(ingr["stock"]) = RatSub(Grams(call.pre), Deg(call.arg))

\* C17: after any useAmount and addAmount calls with any arguments, on an
\* ingredient constructed with value >= 0 and a unit factor > 0, the
\* quantity value is >= 0.
C17_ValueNeverNegative ==
    (hist.kind = "stock" /\ ingr["stock"].unit > 0) =>
      RatLeq(Deg(0), ingr["stock"].value)

\* C18: for every initial mass g and every m with 0 <= m <= g,
\* useAmount(m) followed by useAmount(g - m) both succeed and leave the
\* mass exactly 0; useAmount(g) alone leaves exactly 0.
C18_ConsumeToExactlyZero ==
    (hist.kind = "stock" /\ ingr["stock"].unit # NoUnit
       /\ call.op = "useAmount"
       /\ hist.firstOp = "useAmount"
       /\ 0 <= hist.first /\ hist.first <= hist.g0) =>
      /\ hist.calls = 1 => call.exc = "none"
      /\ (hist.calls = 1 /\ call.arg = hist.g0) =>
           Grams(ingr["stock"]) = Deg(0)
      /\ (hist.calls = 2 /\ call.arg = hist.g0 - hist.first) =>
           (call.exc = "none" /\ Grams(ingr["stock"]) = Deg(0))

\* C19: addAmount(m) on an ingredient whose mass is 0 leaves its mass equal
\* to m; on an ingredient whose mass is > 0 it leaves the mass equal to the
\* previous mass plus m.
C19_AddAmountContract ==
    (call.op = "addAmount" /\ call.obj = "stock"
       /\ call.pre.unit # NoUnit) =>
      /\ call.exc = "none"
      /\ Grams(call.pre) = Deg(0) => Grams(ingr["stock"]) = Deg(call.arg)
      /\ RatLt(Deg(0), Grams(call.pre)) =>
           Grams(ingr["stock"]) = RatAdd(Grams(call.pre), Deg(call.arg))

(* ============================== recipes ================================ *)
\* Each Cook::cookXxx body as the ordered list of its statements.
\* op: the statement; hs: the handles a null-check tests; h: the ingredient
\* handle of a useAmount; n: the numeric argument (grams, seconds, minutes,
\* degrees, decilitres).
Stmt(op, hs, h, n) == [op |-> op, hs |-> hs, h |-> h, n |-> n]

NeedTools(hs)       == Stmt("needTools", hs, "", 0)
NeedTimer           == Stmt("needTimer", {"timer"}, "", 0)
NeedIngredients(hs) == Stmt("needIngredients", hs, "", 0)
NeedKnife           == Stmt("needKnife", {"knife"}, "", 0)
BoardAdvice         == Stmt("boardAdvice", {"board"}, "", 0)
NeedSafeBoard       == Stmt("needSafeBoard", {}, "", 0)
NeedBoil(dl)        == Stmt("needBoil", {}, "", dl)
Use(h, grams)       == Stmt("useAmount", {}, h, grams)
Do(op)              == Stmt(op, {}, "", 0)
Start(secs)         == Stmt("start", {}, "", secs)
Wait(step)          == Stmt("wait", {}, "", step)
Preheat(deg)        == Stmt("preheat", {}, "", deg)
SetTimerMinutes(m)  == Stmt("setTimerMinutes", {}, "", m)
Bake(step)          == Stmt("bake", {}, "", step)
Doneness(expected)  == Stmt("doneness", {}, "", expected)

Boil(total, step) == <<Do("turnOnBurner"), Do("startBoil"), Start(total),
                       Wait(step)>>
Fry(total, step)  == <<Do("turnOnBurner"), Do("heatUp"), Start(total),
                       Wait(step), Do("coolDown"), Do("turnOffBurner")>>
PotOffThenBurner == <<Do("stopBoil"), Do("turnOffBurner")>>
BurnerThenPotOff == <<Do("turnOffBurner"), Do("stopBoil")>>

Steps(r) ==
    CASE r = "cookChickenSoup" ->
           <<NeedTools({"pot"}), NeedTools({"stove"}), NeedTimer,
             NeedBoil(15), Use("chicken", 150), Use("veggies", 100)>>
           \o Boil(1800, 300) \o BurnerThenPotOff
      [] r = "cookSalad" ->
           <<NeedKnife, BoardAdvice, Use("veggies", 120), Use("oil", 10)>>
      [] r = "cookBakedMeat" ->
           <<NeedTools({"oven"}), Use("meat", 200), Do("closeDoor"),
             Preheat(180), SetTimerMinutes(30), Bake(300), Doneness(30)>>
      [] r = "cookPancakes" ->
           <<NeedIngredients({"flour", "eggs", "sugar", "milk"}),
             NeedTools({"pan"}), NeedTools({"stove"}), NeedTimer,
             NeedTools({"mixer"}), Do("plugIn"),
             Use("flour", 150), Use("eggs", 2), Use("sugar", 20),
             Use("milk", 200), Do("mix"),
             Do("turnOnBurner"), Do("heatUp"),
             Start(120), Wait(30), Start(120), Wait(30),
             Start(120), Wait(30),
             Do("coolDown"), Do("turnOffBurner")>>
      [] r = "cookPasta" ->
           <<NeedTools({"pot", "stove"}), NeedTimer,
             NeedIngredients({"pasta"}), NeedIngredients({"sauce"}),
             NeedBoil(20), Use("pasta", 100), Use("sauce", 50)>>
           \o Boil(600, 300) \o PotOffThenBurner
      [] r = "cookScrambledEggs" ->
           <<NeedTools({"pan", "stove"}), NeedTimer,
             NeedIngredients({"eggs", "milk"}), NeedTools({"mixer"}),
             Do("plugIn"), Use("eggs", 3), Use("milk", 50), Do("mix")>>
           \o Fry(300, 60)
      [] r = "cookVegGrill" ->
           <<NeedTools({"pan", "stove"}), NeedTimer,
             NeedIngredients({"veggies"}), NeedKnife, NeedTools({"board"}),
             Use("veggies", 150)>>
           \o Fry(600, 120)
      [] r = "cookMeatStew" ->
           <<NeedTools({"pot", "stove"}), NeedTimer,
             NeedIngredients({"meat"}), NeedIngredients({"veggies"}),
             NeedKnife, NeedTools({"board"}),
             Use("meat", 150), Use("veggies", 100)>>
           \o Boil(2700, 300) \o BurnerThenPotOff
      [] r = "cookSandwich" ->
           <<NeedKnife, NeedTools({"board"}), NeedSafeBoard,
             Use("bread", 2), Use("cheese", 30), Use("meat", 20)>>
      [] r = "cookCookies" ->
           <<NeedIngredients({"flour", "eggs", "milk", "sugar"}),
             NeedTools({"oven"}), NeedTools({"mixer"}), Do("plugIn"),
             Use("flour", 200), Use("sugar", 50), Use("eggs", 2),
             Use("milk", 100), Do("mix"), Do("closeDoor"),
             Preheat(190), SetTimerMinutes(15), Bake(180), Doneness(15)>>
      [] r = "cookRice" ->
           <<NeedIngredients({"rice"}), NeedTools({"pot", "stove"}),
             NeedTimer, Use("rice", 80)>>
           \o Boil(900, 300) \o PotOffThenBurner
      [] r = "cookBoiledEggs" ->
           <<NeedIngredients({"eggs"}), NeedTools({"pot", "stove"}),
             NeedTimer, Use("eggs", 3)>>
           \o Boil(480, 120) \o PotOffThenBurner
      [] r = "cookMashedPotato" ->
           <<NeedIngredients({"potatoes", "milk"}),
             NeedTools({"pot", "stove"}), NeedTimer, NeedTools({"masher"}),
             Use("potatoes", 200), Use("milk", 50)>>
           \o Boil(1200, 300) \o PotOffThenBurner \o <<Do("mash")>>
      [] r = "cookGrilledCheese" ->
           <<NeedIngredients({"bread", "cheese"}),
             NeedTools({"pan", "stove"}), NeedTimer, NeedKnife,
             NeedTools({"board"}), NeedSafeBoard,
             Use("bread", 2), Use("cheese", 40)>>
           \o Fry(300, 60)
      [] r = "cookFriedFish" ->
           <<NeedIngredients({"fish"}), NeedTools({"pan", "stove"}),
             NeedTimer, Use("fish", 150)>>
           \o Fry(420, 60)
      [] r = "cookFruitSalad" ->
           <<NeedIngredients({"fruits"}), NeedKnife, NeedTools({"board"}),
             Use("fruits", 200)>>
      [] r = "cookPorridge" ->
           <<NeedIngredients({"oats", "milk"}), NeedTools({"pot", "stove"}),
             NeedTimer, Use("oats", 50), Use("milk", 150)>>
           \o Boil(420, 60) \o PotOffThenBurner
      [] r = "cookSteak" ->
           <<NeedIngredients({"meat"}), NeedTools({"pan", "stove"}),
             NeedTimer, Use("meat", 180)>>
           \o Fry(480, 60)
      [] r = "cookHotDog" ->
           <<NeedIngredients({"bun", "sausage"}),
             NeedTools({"pan", "stove"}), NeedTimer,
             Use("bun", 1), Use("sausage", 1)>>
           \o Fry(120, 60)
      [] r = "cookSauteedMushrooms" ->
           <<NeedIngredients({"mushrooms"}), NeedTools({"pan", "stove"}),
             NeedTimer, Use("mushrooms", 120)>>
           \o Fry(360, 60)
      [] r = "cookFriedPotato" ->
           <<NeedIngredients({"potatoes"}), NeedTools({"pan", "stove"}),
             NeedTimer, NeedKnife, NeedTools({"board"}),
             Use("potatoes", 200)>>
           \o Fry(720, 180)
      [] r = "cookTomatoSoup" ->
           <<NeedIngredients({"tomatoes", "veggies"}),
             NeedTools({"pot", "stove"}), NeedTimer, NeedKnife,
             NeedTools({"board"}),
             Use("tomatoes", 150), Use("veggies", 80)>>
           \o Boil(1500, 300) \o PotOffThenBurner
      [] r = "cookVegOmelette" ->
           <<NeedIngredients({"eggs", "veggies", "milk"}),
             NeedTools({"pan", "stove"}), NeedTimer, NeedKnife,
             NeedTools({"board"}), NeedTools({"mixer"}), Do("plugIn"),
             Use("veggies", 50), Use("eggs", 3), Use("milk", 30),
             Do("mix")>>
           \o Fry(360, 60)
      [] r = "cookGarlicBread" ->
           <<NeedIngredients({"bread", "garlic"}), NeedTools({"oven"}),
             NeedKnife, NeedTools({"board"}), NeedSafeBoard,
             Use("garlic", 5), Use("bread", 2), Do("closeDoor"),
             Preheat(180), SetTimerMinutes(8), Bake(120)>>
      [] r = "cookSimpleSauce" ->
           <<NeedIngredients({"base", "cream"}),
             NeedTools({"pan", "stove"}), NeedTimer, NeedTools({"mixer"}),
             Do("plugIn"), Use("base", 50), Use("cream", 50), Do("mix")>>
           \o Fry(240, 60)

Recipes ==
    {"cookChickenSoup", "cookSalad", "cookBakedMeat", "cookPancakes",
     "cookPasta", "cookScrambledEggs", "cookVegGrill", "cookMeatStew",
     "cookSandwich", "cookCookies", "cookRice", "cookBoiledEggs",
     "cookMashedPotato", "cookGrilledCheese", "cookFriedFish",
     "cookFruitSalad", "cookPorridge", "cookSteak", "cookHotDog",
     "cookSauteedMushrooms", "cookFriedPotato", "cookTomatoSoup",
     "cookVegOmelette", "cookGarlicBread", "cookSimpleSauce"}

(* ===================== one statement of a recipe ======================= *)
\* w is the world the dish points into: [ingr, tool, timer, oven, stove].
\* The result says what the statement raised, the world it leaves, whether
\* control stays on the statement (a loop that goes round again), and the
\* simulated seconds it let pass.
Ok(w)          == [exc |-> "none", w |-> w, stay |-> FALSE, dt |-> 0]
Again(w, dt)   == [exc |-> "none", w |-> w, stay |-> TRUE, dt |-> dt]
Passed(w, dt)  == [exc |-> "none", w |-> w, stay |-> FALSE, dt |-> dt]
Throw(e, w)    == [exc |-> e, w |-> w, stay |-> FALSE, dt |-> 0]
OnTool(w, o, r) ==
    [exc |-> r.exc, w |-> [w EXCEPT !.tool[o] = r.s], stay |-> FALSE,
     dt |-> 0]

\* the handle a statement dereferences without testing it first
Deref(st) ==
    CASE st.op \in {"needSafeBoard"}                      -> "board"
      [] st.op \in {"needBoil", "startBoil", "stopBoil"}  -> "pot"
      [] st.op \in {"plugIn", "mix"}                      -> "mixer"
      [] st.op = "useAmount"                              -> st.h
      [] st.op \in {"turnOnBurner", "turnOffBurner"}      -> "stove"
      [] st.op \in {"heatUp", "coolDown"}                 -> "pan"
      [] st.op \in {"start", "wait"}                      -> "timer"
      [] st.op = "mash"                                   -> "masher"
      [] st.op \in {"closeDoor", "preheat", "setTimerMinutes", "bake"}
                                                          -> "oven"
      [] OTHER                                            -> ""

NullDeref(st, bound) == Deref(st) # "" /\ Deref(st) \notin bound

NeedTimer_lenient(st, w, bound) == Ok(w)

NeedTimerStmt(st, w, bound) ==
    IF "timer" \in bound THEN Ok(w) ELSE Throw("TimerNotSet", w)

NeedIngredientsStmt(st, w, bound) ==
    IF st.hs \subseteq bound THEN Ok(w) ELSE Throw("IngredientNotFound", w)

DonenessCheck_closedWindow(cookedSeconds, expectedMinutes) ==
    IF cookedSeconds \div 60 >= expectedMinutes + 5 THEN "Overcooked"
    ELSE IF cookedSeconds \div 60 <= expectedMinutes - 5 THEN "Undercooked"
    ELSE "none"

\* int cookedMinutes = cookedSeconds / 60, compared with expected +/- 5
DonenessCheck(cookedSeconds, expectedMinutes) ==
    IF cookedSeconds \div 60 > expectedMinutes + 5 THEN "Overcooked"
    ELSE IF cookedSeconds \div 60 < expectedMinutes - 5 THEN "Undercooked"
    ELSE "none"

Exec(st, w, bound, cooked) ==
    CASE st.op = "needTools" ->
           IF st.hs \subseteq bound THEN Ok(w)
           ELSE Throw("ToolNotAvailable", w)
      [] st.op = "needTimer" -> NeedTimerStmt(st, w, bound)
      [] st.op = "needIngredients" -> NeedIngredientsStmt(st, w, bound)
      [] st.op = "needKnife" ->
           IF "knife" \notin bound \/ ~Knife_canCut(w.tool["knife"])
           THEN Throw("ToolNotAvailable", w) ELSE Ok(w)
      [] st.op = "boardAdvice" -> Ok(w)
      [] st.op = "needSafeBoard" ->
           IF ~CuttingBoard_isSafeForBread(w.tool["board"])
           THEN Throw("ToolNotAvailable", w) ELSE Ok(w)
      [] st.op = "needBoil" ->
           IF ~Pot_canBoil(w.tool["pot"], st.n)
           THEN Throw("NotEnoughIngredient", w) ELSE Ok(w)
      [] st.op = "plugIn" ->
           LET m == Mixer_plugIn(w.tool["mixer"])
               w2 == [w EXCEPT !.tool["mixer"] = m]
           IN  IF ~m.pluggedIn THEN Throw("ToolNotAvailable", w2)
               ELSE Ok(w2)
      [] st.op = "useAmount" ->
           LET r == Ingredient_useAmount(w.ingr[st.h], st.n)
           IN  [exc |-> r.exc, w |-> [w EXCEPT !.ingr[st.h] = r.s],
                stay |-> FALSE, dt |-> 0]
      [] st.op = "mix" -> OnTool(w, "mixer", Mixer_mix(w.tool["mixer"]))
      [] st.op = "heatUp" -> OnTool(w, "pan", Pan_heatUp(w.tool["pan"]))
      [] st.op = "coolDown" ->
           OnTool(w, "pan", Returns(Pan_coolDown(w.tool["pan"])))
      [] st.op = "startBoil" ->
           OnTool(w, "pot", Pot_startBoil(w.tool["pot"]))
      [] st.op = "stopBoil" ->
           OnTool(w, "pot", Returns(Pot_stopBoil(w.tool["pot"])))
      [] st.op = "mash" ->
           OnTool(w, "masher", PotatoMasher_mash(w.tool["masher"]))
      [] st.op = "turnOnBurner" ->
           Ok([w EXCEPT !.stove = Stove_turnOnBurner(w.stove)])
      [] st.op = "turnOffBurner" ->
           Ok([w EXCEPT !.stove = Stove_turnOffBurner(w.stove)])
      [] st.op = "start" ->
           LET r == Timer_start(w.timer, st.n)
           IN  [exc |-> r.exc, w |-> [w EXCEPT !.timer = r.s],
                stay |-> FALSE, dt |-> 0]
      [] st.op = "wait" ->
           \* while (!timer.isFinished()) { timer.tick(step); ... }
           IF Timer_isFinished(w.timer) THEN Ok(w)
           ELSE Again([w EXCEPT !.timer = Timer_tick(w.timer, st.n)], st.n)
      [] st.op = "closeDoor" ->
           Ok([w EXCEPT !.oven = Oven_closeDoor(w.oven)])
      [] st.op = "preheat" ->
           LET r == Oven_preheat(w.oven, st.n, 10)
           IN  [exc |-> r.exc, w |-> [w EXCEPT !.oven = r.s],
                stay |-> FALSE, dt |-> 0]
      [] st.op = "setTimerMinutes" ->
           LET r == Oven_setTimerMinutes(w.oven, st.n)
           IN  [exc |-> r.exc, w |-> [w EXCEPT !.oven = r.s],
                stay |-> FALSE, dt |-> 0]
      [] st.op = "bake" ->
           \* while (true) { oven.tick(step); ...; if (!oven.isOn()) break; }
           LET ov == Oven_tick(w.oven, st.n)
           IN  IF Oven_isOn(ov) THEN Again([w EXCEPT !.oven = ov], st.n)
               ELSE Passed([w EXCEPT !.oven = ov], st.n)
      [] st.op = "doneness" ->
           IF DonenessCheck(cooked, st.n) = "none" THEN Ok(w)
           ELSE Throw(DonenessCheck(cooked, st.n), w)

\* C11: an oven that is on goes off only by turnOff() or in a tick during
\* which the bake timer goes from running to finished; preheat,
\* setTimerMinutes, openDoor and closeDoor never switch it off.
C11_OffOnlyWhenBakeTimerFinishes ==
    (call.obj = "oven" /\ call.pre.on /\ ~oven.on) =>
      \/ call.op = "turnOff"
      \/ /\ call.op = "tick"
         /\ call.pre.bakingTimer.running
         /\ Timer_isFinished(oven.bakingTimer)

\* C12: after preheat(t, w) on a closed-door, default-constructed oven with
\* no bake timer started the oven is on under any ticks, and at temperature
\* t once they total >= 60*w seconds; after a following setTimerMinutes(m)
\* it is on while the ticks since then total < 60*m seconds, off after.
C12_BakeCycle ==
    /\ hist.kind = "oven" /\ hist.phase = "heating" =>
         /\ oven.on
         /\ hist.since >= 60 * hist.w => oven.temperature = Deg(hist.t)
    /\ hist.kind = "oven" /\ hist.phase = "timed" =>
         oven.on = (hist.since < 60 * hist.m)

C12_Witness ==
    /\ hist.kind = "oven" /\ hist.phase = "timed"
    /\ call.op = "tick" /\ call.pre.on
    /\ call.pre.temperature = Deg(hist.t) /\ hist.t = 180
    /\ hist.since = 60 * hist.m
    /\ ~oven.on

\* C13: preheat(t, w) raises InvalidTemperature when t <= 0, t > 300, the
\* door is open or w <= 0, and then leaves the whole oven (temperature, on,
\* door, profile, elapsed counter, bake timer) as it was; otherwise it
\* returns normally with the oven on.
C13_PreheatContract ==
    call.op = "preheat" =>
      IF \/ call.arg[1] <= 0 \/ call.arg[1] > 300
         \/ ~call.pre.doorClosed
         \/ call.arg[2] <= 0
      THEN call.exc = "InvalidTemperature" /\ oven = call.pre
      ELSE call.exc = "none" /\ oven.on

C13_Witness ==
    /\ call.op = "preheat" /\ call.exc = "InvalidTemperature"
    /\ call.arg = <<180, 1>>
    /\ ~call.pre.doorClosed
    /\ call.pre.bakingTimer.running
    /\ oven = call.pre

\* C14: right after a successful preheat(t), before any tick, isOn() is
\* true and getTemperature() equals t.
C14_PreheatSetsTemperature ==
    (call.op = "preheat" /\ call.exc = "none") =>
      /\ Oven_isOn(oven)
      /\ Oven_getTemperature(oven) = Deg(call.arg[1])

(* ======================================================================= *)
(* Spec: one dish is set up and its recipe is run once, a statement at a   *)
(* time.  The nominal setting binds every handle to a freshly constructed  *)
(* object and gives every ingredient 1000 g; a run starts from a setting   *)
(* that differs from it in at most MaxDeviations ways.                     *)
(* ======================================================================= *)
StmtIndexes(r, ops) == {i \in DOMAIN Steps(r) : Steps(r)[i].op \in ops}

IngHandles(r) == {Steps(r)[i].h : i \in StmtIndexes(r, {"useAmount"})}

DevHandles(r) ==
    UNION {Steps(r)[i].hs :
             i \in StmtIndexes(r, {"needTools", "needTimer", "needKnife",
                                   "boardAdvice"})}

\* grams the recipe takes from ingredient h
Need(r, h) ==
    LET i == CHOOSE j \in StmtIndexes(r, {"useAmount"}) : Steps(r)[j].h = h
    IN  Steps(r)[i].n

NominalGrams == 1000

StateDeviations ==
    {<<"dull", "knife">>, <<"wet", "board">>, <<"plastic", "board">>,
     <<"small", "pot">>, <<"onStove", "pot">>, <<"onStove", "pan">>,
     <<"plugged", "mixer">>,
     <<"full", "stove">>, <<"busy", "stove">>, <<"noBurners", "stove">>,
     <<"running", "timer">>, <<"finished", "timer">>,
     <<"on", "oven">>, <<"open", "oven">>, <<"timing", "oven">>,
     <<"timed", "oven">>}

Deviations(r) ==
    {<<"unbound", h>> : h \in IngHandles(r) \cup DevHandles(r)}
    \cup {<<k, h>> : k \in {"short", "exact", "nounit", "pieces"},
                     h \in IngHandles(r)}
    \cup {<<k, t>> : k \in {"broken", "worn"},
                     t \in DevHandles(r) \cap ToolNames}
    \cup {d \in StateDeviations : d[2] \in DevHandles(r)}

RECURSIVE SubsetsUpTo(_, _)
SubsetsUpTo(S, k) ==
    IF k = 0 THEN {{}}
    ELSE LET P == SubsetsUpTo(S, k - 1)
         IN  P \cup {p \cup {x} : p \in P, x \in S}

SetIngredient(r, h, devs) ==
    IF <<"nounit", h>> \in devs THEN Quantity(Deg(NominalGrams), NoUnit)
    ELSE IF <<"short", h>> \in devs THEN Quantity(Deg(Need(r, h) - 1), 1)
    ELSE IF <<"exact", h>> \in devs THEN Quantity(Deg(Need(r, h)), 1)
    ELSE IF <<"pieces", h>> \in devs THEN Quantity(Deg(20), 50)
    ELSE Quantity(Deg(NominalGrams), 1)

SetTool(o, devs) ==
    LET built ==
          CASE o = "knife" -> Knife(<<"dull", "knife">> \notin devs)
            [] o = "board" -> CuttingBoard(<<"plastic", "board">> \notin devs,
                                           <<"wet", "board">> \in devs)
            [] o = "pan"   -> Pan(24, <<"onStove", "pan">> \in devs)
            [] o = "pot"   -> Pot(IF <<"small", "pot">> \in devs
                                  THEN 10 ELSE 20,
                                  <<"onStove", "pot">> \in devs)
            [] o = "mixer" -> Mixer(<<"plugged", "mixer">> \in devs)
            [] OTHER       -> DefaultTools[o]
        used == IF <<"worn", o>> \in devs
                THEN [built EXCEPT !.durability = 1] ELSE built
    IN  IF <<"broken", o>> \in devs THEN KitchenTool_breakTool(used)
        ELSE used

SetStove(devs) ==
    IF <<"noBurners", "stove">> \in devs THEN Stove(0, 0, FALSE)
    ELSE IF <<"full", "stove">> \in devs THEN Stove(4, 4, TRUE)
    ELSE IF <<"busy", "stove">> \in devs THEN Stove(4, 1, TRUE)
    ELSE DefaultStove

SetTimer(devs) ==
    IF <<"running", "timer">> \in devs THEN Timer(60, TRUE, 30)
    ELSE IF <<"finished", "timer">> \in devs THEN Timer(60, FALSE, 60)
    ELSE DefaultTimer

SetOven(devs) ==
    LET built == Oven(IF <<"on", "oven">> \in devs THEN Deg(100) ELSE Deg(0),
                      <<"on", "oven">> \in devs,
                      <<"open", "oven">> \notin devs)
    IN  IF <<"timing", "oven">> \in devs
        THEN [built EXCEPT !.bakingTimer = Timer(60, TRUE, 0)]
        ELSE IF <<"timed", "oven">> \in devs
        THEN [built EXCEPT !.bakingTimer = Timer(60, FALSE, 60)]
        ELSE built

World == [ingr |-> ingr, tool |-> tool, timer |-> timer, oven |-> oven,
          stove |-> stove]

Init ==
    \E r \in Recipes :
      \E devs \in SubsetsUpTo(Deviations(r), MaxDeviations) :
        /\ objs = IngHandles(r) \cup DevHandles(r)
        /\ dish = [recipe |-> r,
                   bound |-> {h \in IngHandles(r) \cup DevHandles(r) :
                                <<"unbound", h>> \notin devs}]
        /\ ingr = [h \in IngHandles(r) |-> SetIngredient(r, h, devs)]
        /\ tool = [o \in ToolNames |-> SetTool(o, devs)]
        /\ timer = SetTimer(devs)
        /\ oven = SetOven(devs)
        /\ stove = SetStove(devs)
        /\ run = [status |-> "running", pc |-> 1, err |-> "none",
                  log |-> <<>>, waited |-> 0, cooked |-> 0, ub |-> FALSE,
                  pre |-> [ingr |-> ingr, tool |-> tool, timer |-> timer,
                           oven |-> oven, stove |-> stove]]
        /\ call = NoCall
        /\ hist = NoHist

Stmts == Steps(dish.recipe)
Here  == Stmts[run.pc]
Logged == IF run.log # <<>> /\ run.log[Len(run.log)] = run.pc
          THEN run.log ELSE Append(run.log, run.pc)

SetWorld(w) ==
    /\ ingr' = w.ingr
    /\ tool' = w.tool
    /\ timer' = w.timer
    /\ oven' = w.oven
    /\ stove' = w.stove

\* the statement returns normally: go on with the next one (or round the
\* loop); after the last statement the recipe has returned
CookAdvance ==
    /\ run.status = "running"
    /\ ~NullDeref(Here, dish.bound)
    /\ \E e \in {Exec(Here, World, dish.bound, run.cooked)} :
       LET next == IF e.stay THEN run.pc ELSE run.pc + 1
       IN  /\ e.exc = "none"
           /\ SetWorld(e.w)
           /\ run' = [run EXCEPT
                        !.pc = next,
                        !.log = Logged,
                        !.waited = IF Here.op = "wait" THEN @ + e.dt ELSE @,
                        !.cooked = IF Here.op = "bake" THEN @ + e.dt ELSE @,
                        !.status = IF next > Len(Stmts) THEN "done"
                                   ELSE "running"]
    /\ UNCHANGED <<objs, dish, call, hist>>

\* the statement throws: the exception leaves cookXxx, nothing is undone
CookRaise ==
    /\ run.status = "running"
    /\ ~NullDeref(Here, dish.bound)
    /\ \E e \in {Exec(Here, World, dish.bound, run.cooked)} :
           /\ e.exc # "none"
           /\ SetWorld(e.w)
           /\ run' = [run EXCEPT !.status = "failed", !.err = e.exc,
                                 !.log = Logged]
    /\ UNCHANGED <<objs, dish, call, hist>>

\* the statement calls a method through a null handle: undefined behaviour.
\* The process is killed, or the call passes without any effect.
CookNullDeref ==
    /\ run.status = "running"
    /\ NullDeref(Here, dish.bound)
    /\ \/ run' = [run EXCEPT !.status = "crashed", !.ub = TRUE,
                             !.log = Logged]
       \/ run' = [run EXCEPT
                    !.pc = @ + 1, !.ub = TRUE, !.log = Logged,
                    !.status = IF run.pc + 1 > Len(Stmts) THEN "done"
                               ELSE "running"]
    /\ UNCHANGED <<objs, tool, timer, oven, stove, ingr, dish, call, hist>>

Next == CookAdvance \/ CookRaise \/ CookNullDeref

Spec == Init /\ [][Next]_vars

(* --------------------------- claims on Spec ---------------------------- *)
Final == run.status \in {"done", "failed", "crashed"}

\* the statements before the one the run is at
Before == 1..(run.pc - 1)

UsedBefore(h) ==
    \E i \in Before : Stmts[i].op = "useAmount" /\ Stmts[i].h = h

\* the device a statement acts on
ActsOn(st) ==
    CASE st.op \in {"plugIn", "mix"}                      -> "mixer"
      [] st.op \in {"turnOnBurner", "turnOffBurner"}      -> "stove"
      [] st.op \in {"heatUp", "coolDown"}                 -> "pan"
      [] st.op \in {"startBoil", "stopBoil"}              -> "pot"
      [] st.op \in {"start", "wait"}                      -> "timer"
      [] st.op = "mash"                                   -> "masher"
      [] st.op \in {"closeDoor", "preheat", "setTimerMinutes", "bake"}
                                                          -> "oven"
      [] OTHER                                            -> "nothing"

ActedBefore(o) == \E i \in Before : ActsOn(Stmts[i]) = o

DeviceNow(o) ==
    CASE o = "timer" -> timer
      [] o = "oven"  -> oven
      [] o = "stove" -> stove
      [] OTHER       -> tool[o]

DeviceAtStart(o) ==
    CASE o = "timer" -> run.pre.timer
      [] o = "oven"  -> run.pre.oven
      [] o = "stove" -> run.pre.stove
      [] OTHER       -> run.pre.tool[o]

Devices == ToolNames \cup {"timer", "oven", "stove"}

WorldAsAtStart ==
    /\ ingr = run.pre.ingr
    /\ tool = run.pre.tool
    /\ timer = run.pre.timer
    /\ oven = run.pre.oven
    /\ stove = run.pre.stove

\* C1: the statements of a recipe run in their declared order and the run
\* stops at the first one that raises: no later statement has acted, and
\* every useAmount that succeeded before it has taken its grams for good.
C1_StopsAtFirstError ==
    ~run.ub =>
      /\ \A i \in DOMAIN run.log : run.log[i] = i
      /\ run.status = "done" => Len(run.log) = Len(Stmts)
      /\ run.status = "failed" =>
           /\ Len(run.log) = run.pc
           /\ run.err # "none"
           /\ \A h \in DOMAIN ingr :
                IF UsedBefore(h)
                THEN /\ ingr[h] = Ingredient_useAmount(
                                     run.pre.ingr[h], Need(dish.recipe, h)).s
                     /\ RatLt(Grams(ingr[h]), Grams(run.pre.ingr[h]))
                     /\ run.pre.ingr[h].unit = 1 =>
                          Grams(ingr[h])
                            = RatSub(Grams(run.pre.ingr[h]),
                                     Deg(Need(dish.recipe, h)))
                ELSE ingr[h] = run.pre.ingr[h]
           /\ \A o \in Devices :
                ~ActedBefore(o) => DeviceNow(o) = DeviceAtStart(o)

C1_Witness ==
    /\ dish.recipe = "cookChickenSoup"
    /\ run.status = "failed"
    /\ run.err = "NotEnoughIngredient"
    /\ Stmts[run.pc] = Use("veggies", 100)
    /\ Grams(run.pre.ingr["chicken"]) = Deg(1000)
    /\ Grams(ingr["chicken"]) = Deg(850)
    /\ ingr["veggies"] = run.pre.ingr["veggies"]
    /\ stove = run.pre.stove
    /\ tool["pot"] = run.pre.tool["pot"]
    /\ timer = run.pre.timer

UnboundDevices     == DevHandles(dish.recipe) \ dish.bound
UnboundIngredients == IngHandles(dish.recipe) \ dish.bound

\* the kind reported is that of a null-check the setting fails
KindOfAMissingHandle ==
    /\ run.err \in {"ToolNotAvailable", "TimerNotSet", "IngredientNotFound"}
    /\ run.err = "TimerNotSet" => "timer" \in UnboundDevices
    /\ run.err = "IngredientNotFound" => UnboundIngredients # {}

\* C2 (as stated): when any tool, device or timer handle of the recipe is
\* null, the run fails (ToolNotAvailable, TimerNotSet) before any useAmount:
\* every ingredient and every device is as it was before the run.
C2_Original ==
    (Final /\ UnboundDevices # {}) =>
      /\ run.status = "failed"
      /\ KindOfAMissingHandle
      /\ WorldAsAtStart

\* C2 (amended): the same for every handle but the cutting board of
\* cookSalad; cookSalad with a null board goes on as with a bound one, so it
\* raises ToolNotAvailable only when its knife cannot cut.
RequiredDevices ==
    IF dish.recipe = "cookSalad" THEN DevHandles(dish.recipe) \ {"board"}
    ELSE DevHandles(dish.recipe)

C2_Amended ==
    /\ (Final /\ RequiredDevices \ dish.bound # {}) =>
         /\ run.status = "failed"
         /\ KindOfAMissingHandle
         /\ WorldAsAtStart
    /\ (Final /\ dish.recipe = "cookSalad" /\ UnboundDevices = {"board"}) =>
         ((run.status = "failed" /\ run.err = "ToolNotAvailable")
            = ~(run.pre.tool["knife"].sharp
                  /\ run.pre.tool["knife"].available
                  /\ run.pre.tool["knife"].durability > 0))

C2_Witness ==
    /\ dish.recipe = "cookChickenSoup"
    /\ UnboundDevices = {"timer"}
    /\ UnboundIngredients = {}
    /\ run.status = "failed"
    /\ run.err = "TimerNotSet"
    /\ run.pc = 3
    /\ WorldAsAtStart

\* C3: when any ingredient handle of the recipe is null, the run fails with
\* IngredientNotFound and no stock mass and no device state changes.
C3_NullIngredientIsReported ==
    (Final /\ UnboundIngredients # {}) =>
      /\ run.status = "failed"
      /\ KindOfAMissingHandle
      /\ UnboundDevices = {} => run.err = "IngredientNotFound"
      /\ WorldAsAtStart

(* ------------- claim on SpecTool about the recipes' tool calls --------- *)
\* the statements of the recipes that write a tool are device operations
RecipeToolOps ==
    {"plugIn", "mix", "heatUp", "coolDown", "startBoil", "stopBoil", "mash"}

NoRecipeCleansOrRepairs ==
    \A r \in Recipes :
      \A i \in DOMAIN Steps(r) :
        /\ Steps(r)[i].op \notin {"cleanTool", "repair"}
        /\ ActsOn(Steps(r)[i]) \in ToolNames =>
             Steps(r)[i].op \in RecipeToolOps

\* C28: isAvailable() goes from false to true only through cleanTool(), on a
\* dirty tool that is available and not worn out; useTool, breakTool and
\* the device operations (heatUp, coolDown, startBoil, stopBoil, mix, mash
\* and the others) never make an unusable tool usable, and no recipe calls
\* cleanTool or repairs a tool: the only tool calls a recipe makes are
\* those device operations.
C28_OnlyCleanToolRestores ==
    /\ [](hist.kind = "tool" => NoRecipeCleansOrRepairs)
    /\ [][\A o \in ToolNames :
            (~KitchenTool_isAvailable(tool[o])
               /\ KitchenTool_isAvailable(tool'[o])) =>
              /\ call'.op = "cleanTool" /\ call'.obj = o
              /\ ~tool[o].clean
              /\ tool[o].available /\ tool[o].durability > 0]_vars

C28_Witness ==
    /\ hist.kind = "tool"
    /\ call.op = "cleanTool"
    /\ ~call.pre.clean
    /\ ~KitchenTool_isAvailable(call.pre)
    /\ KitchenTool_isAvailable(TheTool)

(* ======================================================================= *)
(* SpecAgain: the same dish is cooked again and again on the same stock    *)
(* and the same devices.  Every handle is bound and every device is as its *)
(* constructor leaves it; up to MaxScarce ingredients hold just enough for *)
(* a few runs (a multiple of what the recipe takes, or one gram less), the *)
(* others hold NominalGrams.  hist counts the runs and keeps the statement *)
(* at which the first and the latest NotEnoughIngredient left a run.       *)
(* ======================================================================= *)
InitAgain ==
    \E r \in Recipes :
      \E scarce \in SubsetsUpTo(IngHandles(r), MaxScarce) :
        \E k \in [scarce -> 0..(MaxRuns - 1)], e \in [scarce -> {0, 1}] :
          /\ objs = IngHandles(r) \cup DevHandles(r)
          /\ dish = [recipe |-> r,
                     bound |-> IngHandles(r) \cup DevHandles(r)]
          /\ ingr = [h \in IngHandles(r) |->
                       IF h \in scarce
                       THEN Quantity(Deg(Max(k[h] * Need(r, h) - e[h], 0)), 1)
                       ELSE Quantity(Deg(NominalGrams), 1)]
          /\ tool = DefaultTools
          /\ timer = DefaultTimer
          /\ oven = DefaultOven
          /\ stove = DefaultStove
          /\ run = [status |-> "running", pc |-> 1, err |-> "none",
                    log |-> <<>>, waited |-> 0, cooked |-> 0, ub |-> FALSE,
                    pre |-> [ingr |-> ingr, tool |-> tool, timer |-> timer,
                             oven |-> oven, stove |-> stove]]
          /\ call = NoCall
          /\ hist = [kind |-> "again", runs |-> 1, done |-> 0,
                     firstFail |-> 0, lastFail |-> 0]

\* cook() is called again on the dish after it returned or threw
CookAgain ==
    /\ hist.kind = "again"
    /\ run.status \in {"done", "failed"}
    /\ hist.runs < MaxRuns
    /\ run' = [status |-> "running", pc |-> 1, err |-> "none",
               log |-> <<>>, waited |-> 0, cooked |-> 0, ub |-> FALSE,
               pre |-> World]
    /\ hist' = IF run.err = "NotEnoughIngredient"
               THEN [hist EXCEPT
                       !.runs = @ + 1,
                       !.firstFail = IF @ = 0 THEN run.pc ELSE @,
                       !.lastFail = run.pc]
               ELSE [hist EXCEPT
                       !.runs = @ + 1,
                       !.done = IF run.status = "done" THEN @ + 1 ELSE @]
    /\ UNCHANGED <<objs, tool, timer, oven, stove, ingr, dish, call>>

NextAgain == CookAdvance \/ CookRaise \/ CookAgain

SpecAgain == InitAgain /\ [][NextAgain]_vars

(* ------------------------- claims on SpecAgain ------------------------- *)
\* a run goes past a useAmount exactly when the stock held at least what it
\* takes, and a run that stops at a useAmount found less and took nothing
ConsumeStepPassesWhenEnough ==
    /\ \A i \in Before :
         Stmts[i].op = "useAmount" =>
           /\ RatLeq(Deg(Stmts[i].n), Grams(run.pre.ingr[Stmts[i].h]))
           /\ Grams(run.pre.ingr[Stmts[i].h]) = Deg(Stmts[i].n)
                => Grams(ingr[Stmts[i].h]) = Deg(0)
    /\ (run.status = "failed" /\ Here.op = "useAmount") =>
         /\ run.err = "NotEnoughIngredient"
         /\ RatLt(Grams(run.pre.ingr[Here.h]), Deg(Here.n))
         /\ ingr[Here.h] = run.pre.ingr[Here.h]
    /\ run.err = "NotEnoughIngredient" => Here.op \in {"useAmount", "needBoil"}

\* C20 (as stated): cooking the same recipe repeatedly on the same stock, a
\* run passes a Consume step exactly when the remaining mass is >= the
\* required mass; the first run that finds less fails at that Consume step
\* with NotEnoughIngredient, and every later run fails at that same step.
C20_Original ==
    hist.kind = "again" =>
      /\ ConsumeStepPassesWhenEnough
      /\ (hist.firstFail # 0 /\ Final) =>
           /\ run.status = "failed"
           /\ run.err = "NotEnoughIngredient"
           /\ run.pc = hist.firstFail

\* C20 (amended): ... and every later run fails with NotEnoughIngredient
\* too, at that Consume step or at an earlier Consume step whose ingredient
\* has run out in the meantime; it is always the same step when it is the
\* recipe's first Consume step.
FirstConsumeStep ==
    CHOOSE i \in StmtIndexes(dish.recipe, {"useAmount"}) :
      \A j \in StmtIndexes(dish.recipe, {"useAmount"}) : i <= j

C20_Amended ==
    hist.kind = "again" =>
      /\ ConsumeStepPassesWhenEnough
      /\ (hist.lastFail # 0 /\ Final) =>
           /\ run.status = "failed"
           /\ run.err = "NotEnoughIngredient"
           /\ Here.op = "useAmount"
           /\ run.pc <= hist.lastFail
           /\ hist.lastFail <= hist.firstFail
           /\ hist.firstFail = FirstConsumeStep => run.pc = hist.firstFail

C20_Witness ==
    /\ hist.kind = "again"
    /\ dish.recipe = "cookPancakes"
    /\ hist.runs = 3 /\ hist.done = 1
    /\ Stmts[hist.firstFail] = Use("flour", 150)
    /\ run.status = "failed"
    /\ run.err = "NotEnoughIngredient"
    /\ run.pc = hist.firstFail
    /\ Grams(ingr["flour"]) = Deg(0)

(* ------------------------ further claims on Spec ----------------------- *)
\* the decilitres a recipe asks its pot to hold (0: it never asks)
BoilNeed(r) ==
    IF StmtIndexes(r, {"needBoil"}) = {} THEN 0
    ELSE Steps(r)[CHOOSE i \in StmtIndexes(r, {"needBoil"}) : TRUE].n

\* the null-checks and tool checks a recipe makes before asking canBoil
ChecksBeforeBoil(r) ==
    UNION {Steps(r)[i].hs :
             i \in {j \in DOMAIN Steps(r) :
                      j < CHOOSE b \in StmtIndexes(r, {"needBoil"}) : TRUE}}

\* C21: cookChickenSoup (1.5 l) and cookPasta (2.0 l) run with a pot smaller
\* than the need fail before any useAmount, burner, pot or timer operation:
\* every stock and every device is as before the run; once the null-checks
\* that precede it have passed, the error is NotEnoughIngredient, raised by
\* the canBoil test, and that test raises for no pot that is large enough.
C21_SmallPotFailsBeforeConsumption ==
    (hist.kind = "none" /\ dish.recipe \in {"cookChickenSoup", "cookPasta"}
       /\ Final) =>
      /\ dish.recipe = "cookChickenSoup" => BoilNeed(dish.recipe) = 15
      /\ dish.recipe = "cookPasta" => BoilNeed(dish.recipe) = 20
      /\ run.pre.tool["pot"].volume < BoilNeed(dish.recipe) =>
           /\ run.status = "failed"
           /\ WorldAsAtStart
           /\ \A i \in DOMAIN run.log :
                Stmts[run.log[i]].op \in {"needTools", "needTimer",
                                          "needIngredients", "needBoil"}
           /\ ChecksBeforeBoil(dish.recipe) \subseteq dish.bound =>
                run.err = "NotEnoughIngredient" /\ Here.op = "needBoil"
      /\ (run.status = "failed" /\ Here.op = "needBoil") =>
           /\ run.err = "NotEnoughIngredient"
           /\ run.pre.tool["pot"].volume < BoilNeed(dish.recipe)

C21_Witness ==
    /\ hist.kind = "none"
    /\ dish.recipe = "cookPasta"
    /\ dish.bound = IngHandles("cookPasta") \cup DevHandles("cookPasta")
    /\ run.pre.tool["pot"].volume = 10
    /\ run.status = "failed"
    /\ run.err = "NotEnoughIngredient"
    /\ Here = NeedBoil(20)
    /\ Grams(ingr["pasta"]) = Deg(NominalGrams)
    /\ WorldAsAtStart

(* ======================================================================= *)
(* SpecLoops: a recipe is run once in a kitchen where every handle is      *)
(* bound and every tool is as its constructor leaves it, while the timer   *)
(* and the oven are in any state an earlier use can have left them in; at  *)
(* most one ingredient is a gram short.  cook() runs to its end without    *)
(* being suspended, which is the weak fairness of the run's steps.         *)
(* ======================================================================= *)
PriorTimers ==
    {Timer(0, FALSE, 0), Timer(60, TRUE, 0), Timer(60, TRUE, 30),
     Timer(60, FALSE, 30), Timer(60, FALSE, 60), Timer(7200, TRUE, 0)}

PriorOvens ==
    {[Oven(IF o THEN Deg(100) ELSE Deg(0), o, d) EXCEPT !.bakingTimer = bt] :
       o \in BOOLEAN, d \in BOOLEAN, bt \in PriorTimers}

InitLoops ==
    \E r \in Recipes :
      \E short \in SubsetsUpTo(IngHandles(r), 1) :
        /\ objs = IngHandles(r) \cup DevHandles(r)
        /\ dish = [recipe |-> r, bound |-> IngHandles(r) \cup DevHandles(r)]
        /\ ingr = [h \in IngHandles(r) |->
                     IF h \in short THEN Quantity(Deg(Need(r, h) - 1), 1)
                     ELSE Quantity(Deg(NominalGrams), 1)]
        /\ tool = DefaultTools
        /\ timer \in (IF "timer" \in DevHandles(r) THEN PriorTimers
                      ELSE {DefaultTimer})
        /\ oven \in (IF "oven" \in DevHandles(r) THEN PriorOvens
                     ELSE {DefaultOven})
        /\ stove = DefaultStove
        /\ run = [status |-> "running", pc |-> 1, err |-> "none",
                  log |-> <<>>, waited |-> 0, cooked |-> 0, ub |-> FALSE,
                  pre |-> [ingr |-> ingr, tool |-> tool, timer |-> timer,
                           oven |-> oven, stove |-> stove]]
        /\ call = NoCall
        /\ hist = [kind |-> "loops"]

NextLoops == CookAdvance \/ CookRaise

SpecLoops == InitLoops /\ [][NextLoops]_vars /\ WF_vars(NextLoops)

(* ------------------------- claims on SpecLoops ------------------------- *)
Ceil(a, b) == (a + b - 1) \div b

\* the seconds the timer of the loop at statement i was started with
LoopSeconds(r, i) ==
    IF Steps(r)[i].op = "wait" THEN Steps(r)[i - 1].n
    ELSE Steps(r)[i - 1].n * 60

LoopTicks(r, i) == Ceil(LoopSeconds(r, i), Steps(r)[i].n)

\* the seconds ticked by the loops of kind op among statements 1..k, each
\* making ceil(total / step) ticks
RECURSIVE TickedThrough(_, _, _)
TickedThrough(r, k, op) ==
    IF k = 0 THEN 0
    ELSE TickedThrough(r, k - 1, op)
           + (IF Steps(r)[k].op = op
              THEN LoopTicks(r, k) * Steps(r)[k].n ELSE 0)

\* every loop follows the start of its timer and ticks by a step > 0
LoopsAreArmed ==
    \A r \in Recipes :
      \A i \in DOMAIN Steps(r) :
        /\ Steps(r)[i].op = "wait" =>
             /\ Steps(r)[i].n > 0
             /\ Steps(r)[i - 1].op = "start" /\ Steps(r)[i - 1].n > 0
        /\ Steps(r)[i].op = "bake" =>
             /\ Steps(r)[i].n > 0
             /\ Steps(r)[i - 1].op = "setTimerMinutes"
             /\ Steps(r)[i - 1].n > 0

InLoop(op) ==
    run.status = "running" /\ run.pc <= Len(Stmts) /\ Here.op = op

\* the loops passed so far made exactly ceil(total / step) ticks each, and
\* the loop the run is in has made fewer, or as many and is about to exit
LoopTicksExact ==
    LET waitedBefore == TickedThrough(dish.recipe, run.pc - 1, "wait")
        cookedBefore == TickedThrough(dish.recipe, run.pc - 1, "bake")
    IN  /\ IF InLoop("wait")
           THEN /\ run.waited - waitedBefore
                     \in {k * Here.n : k \in 0..LoopTicks(dish.recipe, run.pc)}
                /\ Timer_isFinished(timer)
                     = (run.waited - waitedBefore
                          = LoopTicks(dish.recipe, run.pc) * Here.n)
           ELSE run.waited = waitedBefore
        /\ IF InLoop("bake")
           THEN /\ run.cooked - cookedBefore
                     \in {k * Here.n :
                            k \in 0..(LoopTicks(dish.recipe, run.pc) - 1)}
                /\ Oven_isOn(oven)
           ELSE run.cooked = cookedBefore

\* C22: every timer wait loop ends after exactly ceil(totalSeconds / step)
\* ticks and its step is > 0; the oven loops of cookBakedMeat, cookCookies
\* and cookGarlicBread end likewise whatever state the oven was in; so every
\* run comes to its end.
C22_LoopsTerminate ==
    [](hist.kind = "loops" => LoopsAreArmed /\ LoopTicksExact) /\ <>Final

C22_Witness ==
    /\ hist.kind = "loops"
    /\ dish.recipe = "cookBakedMeat"
    /\ run.pre.oven.on /\ ~run.pre.oven.doorClosed
    /\ Timer_isFinished(run.pre.oven.bakingTimer)
    /\ run.status = "done"
    /\ run.cooked = 6 * 300
    /\ ~Oven_isOn(oven)

(* --------------------- claims on Spec: simulated time ------------------ *)
\* the seconds the timers of statements 1..k are started with
RECURSIVE StartedThrough(_, _)
StartedThrough(r, k) ==
    IF k = 0 THEN 0
    ELSE StartedThrough(r, k - 1)
           + (IF Steps(r)[k].op = "start" THEN Steps(r)[k].n
              ELSE IF Steps(r)[k].op = "setTimerMinutes"
              THEN Steps(r)[k].n * 60 ELSE 0)

StartedSeconds(r) == StartedThrough(r, Len(Steps(r)))

\* C23: when a recipe completes, the simulated time it let pass in its wait
\* and oven loops equals the sum of the durations its timers were started
\* with (1800 s for cookChickenSoup, 3 x 120 s for cookPancakes, 1800 s for
\* cookBakedMeat).
C23_WaitedEqualsStarted ==
    (hist.kind = "none" /\ run.status = "done" /\ ~run.ub) =>
      /\ run.waited + run.cooked = StartedSeconds(dish.recipe)
      /\ dish.recipe = "cookChickenSoup" => run.waited = 1800
      /\ dish.recipe = "cookPancakes" => run.waited = 3 * 120
      /\ dish.recipe = "cookBakedMeat" => run.cooked = 1800

C23_Witness ==
    /\ hist.kind = "none"
    /\ dish.recipe = "cookPancakes"
    /\ run.pre.timer.running /\ run.pre.timer.elapsed > 0
    /\ run.status = "done" /\ ~run.ub
    /\ run.waited = 360
    /\ Timer_isFinished(timer)

(* ======================================================================= *)
(* SpecDoneness: the doneness check that ends cookBakedMeat and            *)
(* cookCookies, applied to any number of oven ticks.  The run stands at    *)
(* the check with its ingredients taken from a stock that held 1000 g or   *)
(* exactly what the recipe takes.                                          *)
(* ======================================================================= *)
DonenessStep(r) == CHOOSE i \in StmtIndexes(r, {"doneness"}) : TRUE

BakeStep(r) == Steps(r)[CHOOSE i \in StmtIndexes(r, {"bake"}) : TRUE].n

InitDoneness ==
    \E r \in {"cookBakedMeat", "cookCookies"} :
      \E exact \in SUBSET IngHandles(r), ticks \in 1..MaxBakeTicks :
        LET stock == [h \in IngHandles(r) |->
                        Quantity(Deg(IF h \in exact THEN Need(r, h)
                                     ELSE NominalGrams), 1)]
        IN  /\ objs = IngHandles(r) \cup DevHandles(r)
            /\ dish = [recipe |-> r,
                       bound |-> IngHandles(r) \cup DevHandles(r)]
            /\ ingr = [h \in IngHandles(r) |->
                         Ingredient_useAmount(stock[h], Need(r, h)).s]
            /\ tool = DefaultTools
            /\ timer = DefaultTimer
            /\ oven = DefaultOven
            /\ stove = DefaultStove
            /\ run = [status |-> "running", pc |-> DonenessStep(r),
                      err |-> "none", log |-> <<>>, waited |-> 0,
                      cooked |-> ticks * BakeStep(r), ub |-> FALSE,
                      pre |-> [ingr |-> stock, tool |-> tool,
                               timer |-> timer, oven |-> oven,
                               stove |-> stove]]
            /\ call = NoCall
            /\ hist = [kind |-> "doneness"]

NextDoneness == CookAdvance \/ CookRaise

SpecDoneness == InitDoneness /\ [][NextDoneness]_vars

(* ------------------------ claims on SpecDoneness ----------------------- *)
ExpectedMinutes == IF dish.recipe = "cookBakedMeat" THEN 30 ELSE 15

\* C24: the doneness check of cookBakedMeat (expected 30) and cookCookies
\* (expected 15) raises Overcooked exactly when the minutes baked are
\* > expected + 5, Undercooked exactly when they are < expected - 5, and
\* passes otherwise; the ingredients taken before the check stay taken.
C24_DonenessWindow ==
    (hist.kind = "doneness" /\ Final) =>
      /\ Steps(dish.recipe)[DonenessStep(dish.recipe)].n = ExpectedMinutes
      /\ (run.status = "failed" /\ run.err = "Overcooked")
           = (run.cooked \div 60 > ExpectedMinutes + 5)
      /\ (run.status = "failed" /\ run.err = "Undercooked")
           = (run.cooked \div 60 < ExpectedMinutes - 5)
      /\ (run.status = "done")
           = (run.cooked \div 60 \in (ExpectedMinutes - 5)..(ExpectedMinutes + 5))
      /\ \A h \in DOMAIN ingr :
           /\ ingr[h] = Ingredient_useAmount(run.pre.ingr[h],
                                             Need(dish.recipe, h)).s
           /\ Grams(ingr[h]) = RatSub(Grams(run.pre.ingr[h]),
                                      Deg(Need(dish.recipe, h)))

C24_Witness ==
    /\ hist.kind = "doneness"
    /\ dish.recipe = "cookBakedMeat"
    /\ run.cooked = 8 * 300
    /\ run.status = "failed"
    /\ run.err = "Overcooked"
    /\ Grams(ingr["meat"]) = Deg(800)

(* ======================================================================= *)
(* SpecReady: a recipe is run once in a kitchen that is ready for it:      *)
(* every handle bound, every tool usable, every stock sufficient.  The     *)
(* setting still differs from the nominal one in up to MaxDeviations ways  *)
(* that leave it ready (a tool good for one last use, a stock holding      *)
(* exactly what is taken or counted in pieces, a stove with no free        *)
(* burner, a timer or an oven left running or finished), or one stock is   *)
(* a gram short.                                                           *)
(* ======================================================================= *)
ReadyDeviations(r) ==
    {<<k, h>> : k \in {"exact", "pieces"}, h \in IngHandles(r)}
    \cup {<<"worn", t>> : t \in DevHandles(r) \cap ToolNames}
    \cup {d \in {<<"onStove", "pot">>, <<"onStove", "pan">>,
                 <<"plugged", "mixer">>,
                 <<"full", "stove">>, <<"busy", "stove">>,
                 <<"noBurners", "stove">>,
                 <<"running", "timer">>, <<"finished", "timer">>,
                 <<"on", "oven">>, <<"open", "oven">>, <<"timing", "oven">>,
                 <<"timed", "oven">>} : d[2] \in DevHandles(r)}

\* the kitchen was ready for the recipe when the run began
Ready ==
    /\ dish.bound = IngHandles(dish.recipe) \cup DevHandles(dish.recipe)
    /\ \A o \in DevHandles(dish.recipe) \cap ToolNames :
         /\ run.pre.tool[o].clean
         /\ run.pre.tool[o].available
         /\ run.pre.tool[o].durability >= 1
    /\ "pot" \in DevHandles(dish.recipe) =>
         run.pre.tool["pot"].volume >= BoilNeed(dish.recipe)
    /\ "board" \in DevHandles(dish.recipe) =>
         run.pre.tool["board"].wooden /\ ~run.pre.tool["board"].wet
    /\ "knife" \in DevHandles(dish.recipe) => run.pre.tool["knife"].sharp
    /\ \A h \in IngHandles(dish.recipe) :
         /\ run.pre.ingr[h].unit # NoUnit
         /\ RatLeq(Deg(Need(dish.recipe, h)), Grams(run.pre.ingr[h]))

InitReady ==
    \E r \in Recipes :
      \E devs \in SubsetsUpTo(ReadyDeviations(r), MaxDeviations)
                    \cup {{<<"short", h>>} : h \in IngHandles(r)} :
        /\ objs = IngHandles(r) \cup DevHandles(r)
        /\ dish = [recipe |-> r, bound |-> IngHandles(r) \cup DevHandles(r)]
        /\ ingr = [h \in IngHandles(r) |-> SetIngredient(r, h, devs)]
        /\ tool = [o \in ToolNames |-> SetTool(o, devs)]
        /\ timer = SetTimer(devs)
        /\ oven = SetOven(devs)
        /\ stove = SetStove(devs)
        /\ run = [status |-> "running", pc |-> 1, err |-> "none",
                  log |-> <<>>, waited |-> 0, cooked |-> 0, ub |-> FALSE,
                  pre |-> [ingr |-> ingr, tool |-> tool, timer |-> timer,
                           oven |-> oven, stove |-> stove]]
        /\ call = NoCall
        /\ hist = [kind |-> "ready", ready |-> Ready]

NextReady == CookAdvance \/ CookRaise

SpecReady == InitReady /\ [][NextReady]_vars

(* ------------------------- claims on SpecReady ------------------------- *)
\* C25: for each of the 25 recipes, when every handle is bound, every tool
\* is clean and available with durability >= 1, any pot is large enough,
\* boards are wooden and dry, knives sharp and every stock holds at least
\* what the recipe takes, the run raises no error and comes to its end,
\* whatever the stove's burners and the timer's and oven's earlier state:
\* while it runs no statement goes through a null handle, so that a next
\* step is always possible, and every step moves on to a later statement
\* or lets more of the bounded simulated time pass.
C25_ReadyRunCompletes ==
    /\ []((hist.kind = "ready" /\ hist.ready) =>
            /\ run.status \in {"running", "done"}
            /\ run.err = "none" /\ ~run.ub
            /\ run.status = "running" => ~NullDeref(Here, dish.bound)
            /\ run.pc <= Len(Stmts) + 1
            /\ run.waited + run.cooked <= StartedSeconds(dish.recipe))
    /\ [][(hist.kind = "ready" /\ hist.ready) =>
            \/ run'.pc > run.pc
            \/ run'.waited + run'.cooked > run.waited + run.cooked]_vars

C25_Witness ==
    /\ hist.kind = "ready" /\ hist.ready
    /\ dish.recipe = "cookMashedPotato"
    /\ run.pre.tool["pot"].durability = 1
    /\ run.pre.stove.burners = 0
    /\ run.status = "done"
    /\ ~tool["pot"].available
    /\ tool["masher"].durability = DefaultDurability - 1

(* ---------------------- claims on Spec: error kinds -------------------- *)
\* the kinds a bound tool reports when it is unusable (broken, worn out)
UnusableKinds ==
    {Pan_heatUp(KitchenTool_breakTool(DefaultTools["pan"])).exc,
     Pot_startBoil(KitchenTool_breakTool(DefaultTools["pot"])).exc,
     Mixer_mix(KitchenTool_breakTool(Mixer(TRUE))).exc,
     PotatoMasher_mash(KitchenTool_breakTool(DefaultTools["masher"])).exc}

\* the run failed at a null-check of a tool handle that was never bound
FailedOnUnboundTool ==
    /\ run.status = "failed"
    /\ Here.op \in {"needTools", "needKnife"}
    /\ ~(Here.hs \subseteq dish.bound)

\* C29: a run that fails because a tool handle was never bound reports a
\* kind different from the kind reported when the tool is bound but
\* unusable, so the two can be told apart by the kind alone.
C29_UnboundKindDiffers ==
    (hist.kind = "none" /\ FailedOnUnboundTool) => run.err \notin UnusableKinds

(* ======================================================================= *)
(* SpecProfile: a TemperatureProfile is constructed, possibly reset() once *)
(* and then asked for currentTemp(elapsed) any number of times.  hist      *)
(* keeps the profile, the last elapsed asked for and what was returned.    *)
(* ======================================================================= *)
ProfileTemps == {Deg(0), Deg(20), Fl(Rat(220, 3)), Deg(180), Deg(200)}

ProfileDurations == (-1)..MaxProfileSeconds \cup {600}

ProfileElapsed == (-1)..(MaxProfileSeconds + 1) \cup {300, 599, 600, 601}

InitProfile ==
    \E s \in ProfileTemps, t \in ProfileTemps, d \in ProfileDurations,
       g \in BOOLEAN :
      /\ hist = [kind |-> "profile", p |-> TemperatureProfile(s, t, d, g),
                 wasReset |-> FALSE, asked |-> FALSE, e |-> 0,
                 result |-> Deg(0)]
      /\ objs = {"profile"}
      /\ tool = DefaultTools
      /\ timer = DefaultTimer
      /\ oven = DefaultOven
      /\ stove = DefaultStove
      /\ ingr = NoIngredients
      /\ dish = NoDish
      /\ run = NoRun
      /\ call = NoCall

CurrentTemp ==
    /\ hist.kind = "profile"
    /\ \E e \in ProfileElapsed :
         \E v \in {TemperatureProfile_currentTemp(hist.p, e)} :
           hist' = [hist EXCEPT !.asked = TRUE, !.e = e, !.result = v]
    /\ UNCHANGED <<objs, tool, timer, oven, stove, ingr, dish, run, call>>

Reset ==
    /\ hist.kind = "profile"
    /\ ~hist.wasReset /\ ~hist.asked
    /\ \E s \in ProfileTemps, t \in ProfileTemps, d \in ProfileDurations :
         hist' = [hist EXCEPT
                    !.p = TemperatureProfile_reset(hist.p, s, t, d),
                    !.wasReset = TRUE]
    /\ UNCHANGED <<objs, tool, timer, oven, stove, ingr, dish, run, call>>

NextProfile == CurrentTemp \/ Reset

SpecProfile == InitProfile /\ [][NextProfile]_vars

(* ------------------------ claims on SpecProfile ------------------------ *)
RatAbs(x) == [num |-> Abs(x.num), den |-> x.den]

RatMax(x, y) == IF RatLeq(x, y) THEN y ELSE x

RatMin(x, y) == IF RatLeq(x, y) THEN x ELSE y

\* start + (target - start) * e / duration, computed without rounding
Interpolated(p, e) ==
    RatAdd(p.startTemp,
           RatMulFrac(RatSub(p.targetTemp, p.startTemp), e, p.duration))

\* x and y differ by no more than the rounding of the four double
\* operations on temperatures as large as bound
WithinRounding(x, y, bound) ==
    RatLeq(RatMulFrac(RatAbs(RatSub(x, y)), Pow2(MantissaBits), 8), bound)

\* C30: currentTemp(e) returns targetTemp when the profile is not gradual,
\* or duration <= 0, or e >= duration (so currentTemp(duration) is exactly
\* targetTemp); for a gradual profile with 0 <= e < duration it returns
\* start + (target - start) * e / duration, as doubles compute it, which
\* lies between start and target.
C30_CurrentTemp ==
    (hist.kind = "profile" /\ hist.asked) =>
      IF ~hist.p.gradual \/ hist.p.duration <= 0 \/ hist.e >= hist.p.duration
      THEN hist.result = hist.p.targetTemp
      ELSE hist.e >= 0 =>
             /\ WithinRounding(hist.result, Interpolated(hist.p, hist.e),
                               RatMax(RatAbs(hist.p.startTemp),
                                      RatAbs(hist.p.targetTemp)))
             /\ RatLeq(RatMin(hist.p.startTemp, hist.p.targetTemp),
                       hist.result)
             /\ RatLeq(hist.result,
                       RatMax(hist.p.startTemp, hist.p.targetTemp))
             /\ hist.e = 0 => hist.result = hist.p.startTemp

C30_Witness ==
    /\ hist.kind = "profile" /\ hist.asked
    /\ hist.p = TemperatureProfile(Deg(20), Deg(180), 600, TRUE)
    /\ hist.e = 300
    /\ hist.result = Deg(100)

\* C31: for a gradual profile with duration > 0, currentTemp(e) with a
\* negative e returns startTemp.
C31_NegativeElapsedClamped ==
    (/\ hist.kind = "profile" /\ hist.asked
     /\ hist.p.gradual /\ hist.p.duration > 0 /\ hist.e < 0)
      => hist.result = hist.p.startTemp

(* ======================================================================= *)
(* SpecOven: a default-constructed Oven receives preheat, tick,            *)
(* setTimerMinutes, openDoor, closeDoor and turnOff calls in any order.    *)
(* hist keeps the last successful preheat: the temperature read before the *)
(* call (start), its target and duration, the seconds k ticked since, and  *)
(* warming, true from that call until the oven goes off.                   *)
(* ======================================================================= *)
WarmTemps   == {0, 120, 300, 301}
WarmMinutes == 0..1
WarmDeltas  == {-1, 0, 20, 40}

InitOven ==
    /\ objs = {"oven"}
    /\ oven = DefaultOven
    /\ hist = [kind |-> "warm", preheats |-> 0, ticked |-> 0,
               warming |-> FALSE, start |-> Deg(0), target |-> Deg(0),
               duration |-> 0, k |-> 0]
    /\ tool = DefaultTools
    /\ timer = DefaultTimer
    /\ stove = DefaultStove
    /\ ingr = NoIngredients
    /\ dish = NoDish
    /\ run = NoRun
    /\ call = NoCall

WarmCall(op, arg, r) ==
    /\ hist.kind = "warm"
    /\ oven' = r.s
    /\ call' = [op |-> op, obj |-> "oven", arg |-> arg, exc |-> r.exc,
                pre |-> <<>>]
    /\ UNCHANGED <<objs, tool, timer, stove, ingr, dish, run>>

WarmPreheat ==
    \E t \in WarmTemps, w \in WarmMinutes :
      \E r \in {Oven_preheat(oven, t, w)} :
        /\ r.exc = "none" => hist.preheats < MaxWarmups
        /\ WarmCall("preheat", <<t, w>>, r)
        /\ hist' = IF r.exc = "none"
                   THEN [hist EXCEPT !.preheats = @ + 1,
                                     !.warming = TRUE,
                                     !.start = Oven_getTemperature(oven),
                                     !.target = Deg(t),
                                     !.duration = 60 * w,
                                     !.k = 0]
                   ELSE hist

WarmTick ==
    \E delta \in WarmDeltas :
      \E r \in {Oven_tick(oven, delta)} :
        /\ hist.ticked + Max(delta, 0) <= MaxWarmTicked
        /\ WarmCall("tick", delta, Returns(r))
        /\ hist' = [hist EXCEPT
                      !.ticked = @ + Max(delta, 0),
                      !.warming = @ /\ Oven_isOn(r),
                      !.k = IF hist.warming THEN @ + Max(delta, 0) ELSE @]

WarmSetTimerMinutes ==
    \E m \in WarmMinutes :
      /\ WarmCall("setTimerMinutes", m, Oven_setTimerMinutes(oven, m))
      /\ UNCHANGED hist

WarmOpenDoor ==
    /\ WarmCall("openDoor", 0, Returns(Oven_openDoor(oven)))
    /\ UNCHANGED hist

WarmCloseDoor ==
    /\ WarmCall("closeDoor", 0, Returns(Oven_closeDoor(oven)))
    /\ UNCHANGED hist

WarmTurnOff ==
    /\ WarmCall("turnOff", 0, Returns(Oven_turnOff(oven)))
    /\ hist' = [hist EXCEPT !.warming = FALSE]

NextOven ==
    \/ WarmPreheat \/ WarmTick \/ WarmSetTimerMinutes
    \/ WarmOpenDoor \/ WarmCloseDoor \/ WarmTurnOff

SpecOven == InitOven /\ [][NextOven]_vars

(* ------------------------- claims on SpecOven -------------------------- *)
\* start + (target - start) * k / duration of the last successful preheat,
\* computed without rounding
Warmed ==
    RatAdd(hist.start,
           RatMulFrac(RatSub(hist.target, hist.start), hist.k, hist.duration))

\* C32: a successful preheat(t, w) arms the profile with start = the
\* temperature the oven had at the call, target = t, duration = 60*w, and
\* sets the elapsed counter to 0; after k seconds of ticks since that call,
\* 0 < k < 60*w, with the oven still on, the temperature is the linear
\* interpolation from the temperature at the call to t, also when the call
\* came in the middle of an earlier warm-up.
C32_PreheatsCompose ==
    (hist.kind = "warm" /\ hist.warming) =>
      /\ oven.profile.startTemp = hist.start
      /\ oven.profile.targetTemp = hist.target
      /\ oven.profile.duration = hist.duration
      /\ oven.elapsedSeconds = hist.k
      /\ (0 < hist.k /\ hist.k < hist.duration) =>
           /\ WithinRounding(oven.temperature, Warmed,
                             RatMax(RatAbs(hist.start), RatAbs(hist.target)))
           /\ RatLeq(RatMin(hist.start, hist.target), oven.temperature)
           /\ RatLeq(oven.temperature, RatMax(hist.start, hist.target))

C32_Witness ==
    /\ hist.kind = "warm" /\ hist.warming /\ hist.preheats = 2
    /\ hist.start = Deg(40) /\ hist.target = Deg(300)
    /\ hist.k = 20 /\ hist.duration = 60
    /\ RatLt(Deg(126), oven.temperature) /\ RatLt(oven.temperature, Deg(127))

(* ================================ Menu ================================= *)
\* A menu is the vector of added dishes, the characters of standard input
\* with the position of the next unread one, whether run() is still in its
\* loop, has returned or was left by an exception, and the dishes whose
\* cook() was called, in call order.  NullDish is a null Dish pointer.
NullDish == 0

Menu(input) ==
    [dishes |-> <<>>, input |-> input, pos |-> 1, status |-> "running",
     log |-> <<>>]

Menu_addDish(m, d) ==
    IF d # NullDish THEN [m EXCEPT !.dishes = Append(@, d)] ELSE m

IsSpace(c) == c = " "
IsDigit(c) == c \in {"0", "1", "2"}
DigitValue(c) == IF c = "0" THEN 0 ELSE IF c = "1" THEN 1 ELSE 2

\* the position of the first character at or after pos that is not white
\* space, Len(input) + 1 when there is none
RECURSIVE SkipSpaces(_, _)
SkipSpaces(input, pos) ==
    IF pos <= Len(input) /\ IsSpace(input[pos])
    THEN SkipSpaces(input, pos + 1)
    ELSE pos

\* the digits from pos on: their decimal value, how many there are and the
\* position after them
RECURSIVE Digits(_, _, _, _)
Digits(input, pos, value, count) ==
    IF pos <= Len(input) /\ IsDigit(input[pos])
    THEN Digits(input, pos + 1, 10 * value + DigitValue(input[pos]),
                count + 1)
    ELSE [value |-> value, count |-> count, pos |-> pos]

\* cin >> choice: white space is skipped, then an optional '-' and decimal
\* digits are taken up to the first other character; without a digit the
\* extraction fails.
ReadInt(input, pos) ==
    LET p == SkipSpaces(input, pos)
        negative == p <= Len(input) /\ input[p] = "-"
        d == Digits(input, IF negative THEN p + 1 ELSE p, 0, 0)
    IN  IF d.count = 0 THEN [ok |-> FALSE, value |-> 0, pos |-> d.pos]
        ELSE [ok |-> TRUE, value |-> IF negative THEN -d.value ELSE d.value,
              pos |-> d.pos]

Menu_run_stopsOnInvalid(m, raises) ==
    LET r == ReadInt(m.input, m.pos)
    IN  IF ~r.ok \/ r.value = 0 \/ r.value < 1 \/ r.value > Len(m.dishes)
        THEN [m EXCEPT !.pos = r.pos, !.status = "returned"]
        ELSE [m EXCEPT !.pos = r.pos,
                       !.log = Append(@, m.dishes[r.value]),
                       !.status = IF raises THEN "raised" ELSE "running"]

\* one pass of the loop of run(); raises tells whether the cook() it calls
\* throws
Menu_run(m, raises) ==
    LET r == ReadInt(m.input, m.pos)
    IN  IF ~r.ok THEN [m EXCEPT !.pos = r.pos, !.status = "returned"]
        ELSE IF r.value = 0
        THEN [m EXCEPT !.pos = r.pos, !.status = "returned"]
        ELSE IF r.value < 1 \/ r.value > Len(m.dishes)
        THEN [m EXCEPT !.pos = r.pos]
        ELSE [m EXCEPT !.pos = r.pos,
                       !.log = Append(@, m.dishes[r.value]),
                       !.status = IF raises THEN "raised" ELSE "running"]

(* ======================================================================= *)
(* SpecMenu: dishes, some of them null, are added to a Menu and run() is   *)
(* called on an input of up to MaxInput characters; a step is one pass of  *)
(* its loop.  cook() is virtual: each call either returns or throws.       *)
(* ======================================================================= *)
MenuChars == {"0", "1", "2", "x", " ", "-"}

MenuInputs == UNION {[1..k -> MenuChars] : k \in 0..MaxInput}

MenuAdds == {<<>>, <<1>>, <<NullDish, 1>>, <<1, 2>>, <<2, NullDish, 1>>}

RECURSIVE Added(_, _)
Added(m, adds) ==
    IF adds = <<>> THEN m
    ELSE Added(Menu_addDish(m, Head(adds)), Tail(adds))

InitMenu ==
    /\ objs = {"menu"}
    /\ \E input \in MenuInputs, adds \in MenuAdds :
         hist = [kind |-> "menu", adds |-> adds,
                 menu |-> Added(Menu(input), adds)]
    /\ tool = DefaultTools
    /\ timer = DefaultTimer
    /\ oven = DefaultOven
    /\ stove = DefaultStove
    /\ ingr = NoIngredients
    /\ dish = NoDish
    /\ run = NoRun
    /\ call = NoCall

MenuRun ==
    /\ hist.kind = "menu"
    /\ hist.menu.status = "running"
    /\ \E raises \in BOOLEAN :
         \E m \in {Menu_run(hist.menu, raises)} :
           hist' = [hist EXCEPT !.menu = m]
    /\ UNCHANGED <<objs, tool, timer, oven, stove, ingr, dish, run, call>>

NextMenu == MenuRun

SpecMenu == InitMenu /\ [][NextMenu]_vars

(* ------------------------- claims on SpecMenu -------------------------- *)
\* the results of cin >> choice taken one after another from pos on, up to
\* and including the first that fails
RECURSIVE Choices(_, _)
Choices(input, pos) ==
    LET r == ReadInt(input, pos)
    IN  IF r.ok THEN <<r>> \o Choices(input, r.pos) ELSE <<r>>

\* the dishes the choices ask for, in order, up to the first choice that
\* is 0 or not a number
RECURSIVE Served(_, _)
Served(choices, dishes) ==
    IF choices = <<>> \/ ~Head(choices).ok \/ Head(choices).value = 0
    THEN <<>>
    ELSE IF Head(choices).value \in 1..Len(dishes)
    THEN <<dishes[Head(choices).value]>> \o Served(Tail(choices), dishes)
    ELSE Served(Tail(choices), dishes)

IsPrefix(s, t) == Len(s) <= Len(t) /\ s = SubSeq(t, 1, Len(s))

MenuOrder == Served(Choices(hist.menu.input, 1), hist.menu.dishes)

\* the dishes are the non-null pointers added, in order
AddedDishes == SelectSeq(hist.adds, LAMBDA d : d # NullDish)

Stovetop(r) == \E i \in 1..Len(Steps(r)) : Steps(r)[i].op = "turnOnBurner"

\* C35: a successful run of a stovetop recipe leaves the number of active
\* burners as it was before the run, for every initial number from 0 up
\* to the stove's total.
C35_BurnersRestored ==
    (hist.kind = "none" /\ run.status = "done" /\ Stovetop(dish.recipe)) =>
      stove.activeBurners = run.pre.stove.activeBurners

\* C36: a run of a stovetop recipe that fails leaves no more active
\* burners than before the run and no pan or pot on the stove that was not
\* there before: a burner the run switched on is not left on when a later
\* step raises.
C36_FailedRunReleasesStove ==
    (hist.kind = "none" /\ run.status = "failed" /\ Stovetop(dish.recipe)) =>
      /\ stove.activeBurners <= run.pre.stove.activeBurners
      /\ \A o \in {"pan", "pot"} :
           tool[o].onStove => run.pre.tool[o].onStove

\* C37: from a default-constructed oven, after any sequence of preheat,
\* tick, setTimerMinutes, openDoor, closeDoor and turnOff calls,
\* 0 <= temperature <= 300, and while the oven is on its temperature lies
\* between the start and target temperatures of the current profile.
C37_TemperatureInRange ==
    hist.kind = "warm" =>
      /\ RatLeq(Deg(0), oven.temperature)
      /\ RatLeq(oven.temperature, Deg(300))
      /\ Oven_isOn(oven) =>
           /\ RatLeq(RatMin(oven.profile.startTemp, oven.profile.targetTemp),
                     oven.temperature)
           /\ RatLeq(oven.temperature,
                     RatMax(oven.profile.startTemp, oven.profile.targetTemp))

C37_Witness ==
    /\ hist.kind = "warm" /\ Oven_isOn(oven)
    /\ call.op = "tick" /\ call.arg = 20
    /\ oven.profile.startTemp = Deg(300)
    /\ oven.profile.targetTemp = Deg(120)
    /\ oven.elapsedSeconds = 20
    /\ RatLt(Deg(239), oven.temperature)
    /\ RatLt(oven.temperature, Deg(241))
    /\ oven.bakingTimer.running

\* C38: in every state reached from a default-constructed oven through
\* preheat, tick, setTimerMinutes, openDoor, closeDoor and turnOff, the
\* oven is not on with its door open.
C38_NeverOnWithDoorOpen ==
    hist.kind = "warm" => (Oven_isOn(oven) => Oven_isDoorClosed(oven))

(* ---------------------- claims on Spec: baking ------------------------- *)
Baked == {"cookBakedMeat", "cookCookies"}

\* the seconds the recipe sets the bake timer to
BakeSeconds(r) == 60 * Steps(r)[DonenessStep(r)].n

\* C39: in cookBakedMeat and cookCookies, from every initial oven state (on
\* or off, warm or cold, door open or closed, bake timer idle, running or
\* finished), the oven is on while fewer than 1800 s resp. 900 s have been
\* ticked in the bake loop and goes off when exactly that many have, so
\* the doneness check passes: Overcooked and Undercooked are never raised.
C39_BakeLoopExact ==
    (hist.kind = "none" /\ dish.recipe \in Baked) =>
      /\ run.err \notin {"Overcooked", "Undercooked"}
      /\ (run.status = "running" /\ Here.op = "bake") =>
           /\ Oven_isOn(oven)
           /\ run.cooked < BakeSeconds(dish.recipe)
      /\ (run.status \in {"running", "done"}
          /\ run.pc >= DonenessStep(dish.recipe)) =>
           /\ ~Oven_isOn(oven)
           /\ run.cooked = BakeSeconds(dish.recipe)

C39_Witness ==
    /\ hist.kind = "none" /\ dish.recipe = "cookCookies"
    /\ run.status = "done"
    /\ run.pre.oven.on /\ ~run.pre.oven.doorClosed
    /\ run.cooked = 900
    /\ ~Oven_isOn(oven)

====
